---- MODULE Spec2Model ----
(***************************************************************************)
(* Token holder distribution refresh engine (token_holdings).              *)
(*                                                                         *)
(* The model follows HederaTokenFetcher.refresh_token_data and the code it *)
(* calls, the SQLite store behind get_db_session, and the SIGINT handler   *)
(* of the command line.  CLI processes run in the slots of Procs; every    *)
(* process owns one SQLAlchemy session (one SQLite connection), the store  *)
(* (token_metadata, token_holdings, refresh_logs) is shared.               *)
(*                                                                         *)
(* The fetcher is modelled as constructed with enable_usd_features=False   *)
(* (pricing_service and filter_service are None), so holders are neither   *)
(* priced nor filtered.                                                    *)
(***************************************************************************)
EXTENDS Integers, Sequences, FiniteSets, TLC

(***************************************************************************)
(* Bounds of the model.                                                    *)
(***************************************************************************)
\* refresh_token_data is invoked at most this many times in one behaviour
MaxInvocations == 2
\* storage failures injected into the swap block in one behaviour
MaxFaults == 1
\* longest holder list handed to the percentile / rank engine on its own
MaxHolders == 11
\* calls of the engine on one input
MaxEngineRuns == 2
\* longest holder list handed to the USD filter service on its own
MaxFilterHolders == 3
\* how far the pricing service's clock runs, in minutes
MaxNow == 8
\* entries of a response of the SaucerSwap API
MaxEntries == 2
\* price updates for HBAR recorded in one behaviour
MaxPriceUpdates == 2

(***************************************************************************)
(* Program constants.                                                      *)
(***************************************************************************)
TOP_COUNT == 10
MAX_PERCENTILE == 99
\* _cache_expiry of the pricing service, in minutes
CACHE_EXPIRY == 5
\* config.py: attempts of one HTTP request, and the base of the backoff
MAX_RETRIES == 5
BACKOFF_FACTOR == 2
\* config.py: the pacing of requests, and the sleep after each page in
\* milliseconds (1 / REQUESTS_PER_SECOND seconds)
REQUESTS_PER_SECOND == 25
RATE_LIMIT_SLEEP == 1000 \div REQUESTS_PER_SECOND
\* size of the holder list of the repository's test_percentile_calculation
PROBE_SIZE == 1000

\* slots in which command line processes run concurrently
Procs == {"p1", "p2"}
NoProc == "none"

\* tokens_enabled.json
Tokens == {"SAUCE", "KARATE", "DOVU"}
\* token_decimals.json: DOVU has no entry
decimals_config == [t \in {"SAUCE", "KARATE"} |-> IF t = "SAUCE" THEN 6 ELSE 8]

\* What the mirror node lists for a token under the query of lines 311-315
\* (account.balance > 1): the pages of its balances listing, balances in the
\* token's smallest unit.  SAUCE has two pages and a tie,
\* KARATE one page with more holders than there are top ranks.
ServerPages ==
  [t \in Tokens |->
     IF t = "SAUCE"
       THEN << << [account_id |-> "0.0.11", balance |-> 5],
                  [account_id |-> "0.0.12", balance |-> 9] >>,
               << [account_id |-> "0.0.13", balance |-> 5] >> >>
       ELSE << [i \in 1..12 |->
                  [account_id |-> "0.0." \o ToString(20 + i),
                   balance |-> ((3 * i) % 7) + 2]] >>]

\* what _make_request_with_retry returns for a page request
Responses == {"ok", "empty", "none"}

(***************************************************************************)
(* Percentile / rank engine (pure functions).                              *)
(***************************************************************************)
Min(a, b) == IF a <= b THEN a ELSE b
Max(a, b) == IF a >= b THEN a ELSE b

\* sorted(holders, key=balance, reverse=True): stable, descending
RECURSIVE InsertDesc(_, _)
InsertDesc(sortedSeq, h) ==
  IF sortedSeq = << >> THEN << h >>
  ELSE IF Head(sortedSeq).balance >= h.balance
         THEN << Head(sortedSeq) >> \o InsertDesc(Tail(sortedSeq), h)
         ELSE << h >> \o sortedSeq

RECURSIVE SortDesc(_)
SortDesc(hs) ==
  IF hs = << >> THEN << >>
  ELSE InsertDesc(SortDesc(SubSeq(hs, 1, Len(hs) - 1)), hs[Len(hs)])

\* hundredths rounded to the nearest integer instead of towards zero
RoundNearestHundredths(x) ==
  IF x >= 0 THEN (x + 50) \div 100 ELSE 0 - ((50 - x) \div 100)

\* Decimal.quantize(Decimal(1), rounding=ROUND_DOWN) of x/100: towards zero
RoundDownHundredths(x) ==
  IF x >= 0 THEN x \div 100 ELSE 0 - ((0 - x) \div 100)

\* a position one place too low
PercentilePositionOneLow(percentile, total_accounts) ==
  Max(0, Min(RoundDownHundredths(percentile * total_accounts - 200),
             total_accounts - 1))

\* a position counted from the other end of the percentile scale
PercentilePositionMirrored(percentile, total_accounts) ==
  Max(0, Min(RoundDownHundredths((100 - percentile) * total_accounts - 100),
             total_accounts - 1))

\* (percentile/100) * total_accounts - 1, rounded down, clamped to the list
PercentilePosition(percentile, total_accounts) ==
  Max(0, Min(RoundDownHundredths(percentile * total_accounts - 100),
             total_accounts - 1))

\* a top list that is not cut at TOP_COUNT
TopHoldersUncut(holders) ==
  LET sorted_holders == SortDesc(holders)
  IN  [rank \in 1..Len(sorted_holders) |->
         [account_id |-> sorted_holders[rank].account_id,
          balance |-> sorted_holders[rank].balance,
          rank |-> rank, percentile |-> 0,
          is_top_holder |-> TRUE, is_percentile_marker |-> FALSE]]

\* a top list taken from the head of the list as it was handed in
TopHoldersUnsorted(holders) ==
  LET top_count == Min(TOP_COUNT, Len(holders))
  IN  [rank \in 1..top_count |->
         [account_id |-> holders[rank].account_id,
          balance |-> holders[rank].balance,
          rank |-> rank, percentile |-> 0,
          is_top_holder |-> TRUE, is_percentile_marker |-> FALSE]]

TopHolders(holders) ==
  LET sorted_holders == SortDesc(holders)
      top_count == Min(TOP_COUNT, Len(sorted_holders))
  IN  [rank \in 1..top_count |->
         [account_id |-> sorted_holders[rank].account_id,
          balance |-> sorted_holders[rank].balance,
          rank |-> rank, percentile |-> 0,
          is_top_holder |-> TRUE, is_percentile_marker |-> FALSE]]

\* element k is the marker of percentile MAX_PERCENTILE + 1 - k (99 down to 1)
PercentileHolders(holders) ==
  LET sorted_holders == SortDesc(holders)
      total_accounts == Len(sorted_holders)
  IN  IF total_accounts = 0 THEN << >>
      ELSE [k \in 1..MAX_PERCENTILE |->
              LET percentile == MAX_PERCENTILE + 1 - k
                  position == PercentilePosition(percentile, total_accounts)
              IN  [account_id |-> sorted_holders[position + 1].account_id,
                   balance |-> sorted_holders[position + 1].balance,
                   rank |-> position + 1, percentile |-> percentile,
                   is_top_holder |-> FALSE, is_percentile_marker |-> TRUE]]

Range(s) == {s[i] : i \in DOMAIN s}

\* the TokenHolding rows built from the engine's output (lines 595-629)
BuildHoldings(token, batch, holders) ==
  {[token_symbol |-> token, account_id |-> h.account_id, balance |-> h.balance,
    balance_rank |-> h.rank, percentile_rank |-> h.percentile,
    is_top_holder |-> h.is_top_holder,
    is_percentile_marker |-> h.is_percentile_marker,
    refresh_batch_id |-> batch]
     : h \in Range(TopHolders(holders)) \cup Range(PercentileHolders(holders))}

(***************************************************************************)
(* State.                                                                  *)
(***************************************************************************)
VARIABLES
  token_metadata,   \* store: token_symbol -> TokenMetadata row (committed)
  token_holdings,   \* store: set of TokenHolding rows (committed)
  refresh_logs,     \* store: sequence of RefreshLog rows (committed)
  writer,           \* the process whose connection holds SQLite's write lock
  pending,          \* per process: what its open write transaction did
  clock,            \* datetime.utcnow()
  invocations,      \* number of refresh_token_data calls made so far
  faults,           \* number of storage failures injected so far
  pc,               \* per process: position in refresh_token_data
  token_symbol,     \* per process: argument of the running invocation
  refresh_batch_id, \* per process: uuid of the running invocation
  start_time,       \* per process: start_time of the running invocation
  metadata,         \* per process: the session's TokenMetadata object
  holders,          \* per process: holders accumulated by the fetch loop
  page,             \* per process: index of the page the cursor points at
  request_count,    \* per process: self.request_count
  fetch_aborted,    \* per process: the page loop ended at "if not data: break"
  new_holdings,     \* per process: TokenHolding objects built in memory
  exc,              \* per process: the exception being handled ("" if none)
  session_ok        \* per process: FALSE once a flush failed and no rollback ran

vars == << token_metadata, token_holdings, refresh_logs, writer, pending, clock,
           invocations, faults, pc, token_symbol, refresh_batch_id, start_time,
           metadata, holders, page, request_count, fetch_aborted,
           new_holdings,
           exc, session_ok >>

storeVars == << token_metadata, token_holdings, refresh_logs >>
fetchVars == << holders, page, request_count, fetch_aborted >>

\* The components below the orchestrator are also exercised on their own,
\* each under a specification of its own, on inputs of their own.
VARIABLES
  engine_input,     \* engine: the holders list passed to the engine
  engine_results,   \* engine: what each call on engine_input returned
  position_probe    \* engine: one pass of the percentile loop on a large N

engineVars == << engine_input, engine_results, position_probe >>

VARIABLES
  filter_raw,       \* filter: the list a call is made on (raw page entries
                    \*   for the fetch, holder dicts for a direct call)
  filter_price,     \* filter: what get_token_price_usd returns (0: None)
  filter_min_usd,   \* filter: min_usd_value (0: not given)
  filter_op,        \* filter: what has been done so far
  filter_holders,   \* filter: holders after page processing
  filter_output,    \* filter: what the USD step returned
  filter_ranking    \* filter: what the engine returned on filter_output

filterVars == << filter_raw, filter_price, filter_min_usd, filter_op,
                 filter_holders, filter_output, filter_ranking >>

VARIABLES
  price_cache,          \* pricing: _price_cache, token id -> price_usd
  last_cache_update,    \* pricing: _last_cache_update (0: None)
  now,                  \* pricing: datetime.utcnow(), in minutes
  upstream,             \* pricing: what GET /tokens answers at present
  lookup_result,        \* pricing: what a direct get_token_price_usd returned
  price_pc,             \* pricing: position of a refresh in its price lookups
  price_usd_at_refresh, \* pricing: price_usd of line 568 (0: None)
  floor_price,          \* pricing: price behind min_balance_atomic (0: None)
  usd_step_price        \* pricing: price of the filter / usd_value step

pricingVars == << price_cache, last_cache_update, now, upstream, lookup_result,
                  price_pc, price_usd_at_refresh, floor_price, usd_step_price >>

VARIABLES
  ingest_response,  \* ingest: the list GET /tokens answered with
  ingest_cache,     \* ingest: _price_cache after refresh_price_cache
  ingest_ok,        \* ingest: what refresh_price_cache returned
  ingest_done       \* ingest: refresh_price_cache has run

ingestVars == << ingest_response, ingest_cache, ingest_ok, ingest_done >>

VARIABLES
  hbar_mirror,      \* hbar: what the exchange-rate endpoint answers
  hbar_oracle,      \* hbar: what the price oracle answers
  hbar_pc,          \* hbar: position of get_hbar_price_usd
  hbar_consulted,   \* hbar: the sources requested so far, in order
  hbar_price,       \* hbar: what get_hbar_price_usd returned
  hbar_history,     \* hbar: the TokenPriceHistory rows written for HBAR
  hbar_tiers        \* hbar: for each of those rows, the source its price came from

hbarVars == << hbar_mirror, hbar_oracle, hbar_pc, hbar_consulted, hbar_price,
               hbar_history, hbar_tiers >>

VARIABLES
  retry_url,        \* retry: url and params of the call
  retry_attempt,    \* retry: the loop variable attempt
  retry_requests,   \* retry: the GETs issued, with the time of each
  retry_responses,  \* retry: what came back for each GET
  retry_waits,      \* retry: the sleeps made before a further attempt, in seconds
  retry_clock,      \* retry: time, in milliseconds
  retry_outcome     \* retry: "idle", "running", or what the call returned

retryVars == << retry_url, retry_attempt, retry_requests, retry_responses,
                retry_waits, retry_clock, retry_outcome >>

\* everything outside refresh_token_data's own state
sideVars == << engineVars, filterVars, pricingVars, ingestVars, hbarVars, retryVars >>
\* everything outside one component's own state
outsideEngine == << vars, filterVars, pricingVars, ingestVars, hbarVars, retryVars >>
outsideFilter == << vars, engineVars, pricingVars, ingestVars, hbarVars, retryVars >>
outsidePricing == << vars, engineVars, filterVars, ingestVars, hbarVars, retryVars >>
outsideIngest == << vars, engineVars, filterVars, pricingVars, hbarVars, retryVars >>
outsideHbar == << vars, engineVars, filterVars, pricingVars, ingestVars, retryVars >>
outsideRetry == << vars, engineVars, filterVars, pricingVars, ingestVars, hbarVars >>
allVars == << vars, sideVars >>

\* a token that was never refreshed has no token_metadata row
NoRow == [exists |-> FALSE, refresh_in_progress |-> FALSE,
          last_refresh_success |-> FALSE, error_message |-> "",
          last_refresh_started |-> 0, last_refresh_completed |-> 0,
          total_accounts_fetched |-> 0]

\* deleted: tokens whose rows the transaction deleted; inserted: rows it added
NoPending == [deleted |-> {}, inserted |-> FALSE]

Running == {"starting", "started", "fetching", "fetched", "swapping",
            "swap_deleted", "swap_inserted", "swap_committed", "failing"}

\* the whole listing of a token, as a fetch without failures accumulates it
RECURSIVE AllPages(_, _)
AllPages(t, k) ==
  IF k = 0 THEN << >> ELSE AllPages(t, k - 1) \o ServerPages[t][k]

\* The store a process may find at start: empty (first run ever), or as one
\* successful refresh of SAUCE in an earlier run has left it (started at 1,
\* committed at 2, fetch_started and fetch_completed logged).
SeedBatch == 0
SeedHoldings ==
  BuildHoldings("SAUCE", SeedBatch, AllPages("SAUCE", Len(ServerPages["SAUCE"])))
SeedMetadata ==
  [exists |-> TRUE, refresh_in_progress |-> FALSE,
   last_refresh_success |-> TRUE, error_message |-> "",
   last_refresh_started |-> 1, last_refresh_completed |-> 2,
   total_accounts_fetched |-> Len(AllPages("SAUCE", Len(ServerPages["SAUCE"])))]
SeedLogs ==
  << [token_symbol |-> "SAUCE", operation |-> "fetch_started",
      refresh_batch_id |-> SeedBatch],
     [token_symbol |-> "SAUCE", operation |-> "fetch_completed",
      refresh_batch_id |-> SeedBatch] >>

RefreshInit ==
  /\ \E seeded \in BOOLEAN :
       /\ token_metadata =
            [t \in Tokens |-> IF seeded /\ t = "SAUCE" THEN SeedMetadata ELSE NoRow]
       /\ token_holdings = IF seeded THEN SeedHoldings ELSE {}
       /\ refresh_logs = IF seeded THEN SeedLogs ELSE << >>
       /\ clock = IF seeded THEN 2 ELSE 1
  /\ writer = NoProc
  /\ pending = [p \in Procs |-> NoPending]
  /\ invocations = 0
  /\ faults = 0
  /\ pc = [p \in Procs |-> "idle"]
  /\ token_symbol = [p \in Procs |-> "SAUCE"]
  /\ refresh_batch_id = [p \in Procs |-> 0]
  /\ start_time = [p \in Procs |-> 0]
  /\ metadata = [p \in Procs |-> "none"]
  /\ holders = [p \in Procs |-> << >>]
  /\ page = [p \in Procs |-> 0]
  /\ request_count = [p \in Procs |-> 0]
  /\ fetch_aborted = [p \in Procs |-> FALSE]
  /\ new_holdings = [p \in Procs |-> {}]
  /\ exc = [p \in Procs |-> ""]
  /\ session_ok = [p \in Procs |-> TRUE]

\* no call of the engine on its own is under way
NoProbe == [total_accounts |-> 0, percentile |-> 0, position |-> 0, rank |-> 0]
EngineIdle ==
  /\ engine_input = << >>
  /\ engine_results = << >>
  /\ position_probe = NoProbe

\* no call of the USD filter on its own is under way
NoRanking == [top_holders |-> << >>, percentile_holders |-> << >>]
FilterIdle ==
  /\ filter_raw = << >>
  /\ filter_price = 0
  /\ filter_min_usd = 0
  /\ filter_op = "idle"
  /\ filter_holders = << >>
  /\ filter_output = << >>
  /\ filter_ranking = NoRanking

\* SaucerSwapPricingService.__init__ (lines 48-51): nothing cached, and no
\* lookup under way; the API is not reached
EmptyCache == [token_id \in {} |-> 0]
ApiDown == [up |-> FALSE, is_list |-> FALSE, invalid |-> FALSE, tokens |-> EmptyCache]
NoLookup == [token_id |-> "", price |-> 0, list_calls |-> 0]
PricingIdle ==
  /\ price_cache = EmptyCache
  /\ last_cache_update = 0
  /\ now = 1
  /\ upstream = ApiDown
  /\ lookup_result = NoLookup
  /\ price_pc = "idle"
  /\ price_usd_at_refresh = 0
  /\ floor_price = 0
  /\ usd_step_price = 0

\* no refresh_price_cache on a response of its own is under way
IngestIdle ==
  /\ ingest_response = << >>
  /\ ingest_cache = EmptyCache
  /\ ingest_ok = FALSE
  /\ ingest_done = FALSE

\* no get_hbar_price_usd is under way; neither source is reached
SourceDown == [kind |-> "error"]
NoPrice == [num |-> 0, den |-> 0]
HbarIdle ==
  /\ hbar_mirror = SourceDown
  /\ hbar_oracle = SourceDown
  /\ hbar_pc = "idle"
  /\ hbar_consulted = << >>
  /\ hbar_price = NoPrice
  /\ hbar_history = << >>
  /\ hbar_tiers = << >>

\* no _make_request_with_retry on its own is under way
NoUrl == [url |-> "", params |-> FALSE]
RetryIdle ==
  /\ retry_url = NoUrl
  /\ retry_attempt = 0
  /\ retry_requests = << >>
  /\ retry_responses = << >>
  /\ retry_waits = << >>
  /\ retry_clock = 0
  /\ retry_outcome = "idle"

SideIdle == EngineIdle /\ FilterIdle /\ PricingIdle /\ IngestIdle /\ HbarIdle /\ RetryIdle

Init == RefreshInit /\ SideIdle

(***************************************************************************)
(* Store helpers.                                                          *)
(***************************************************************************)
\* SQLite admits one write transaction at a time; a second writer waits
CanWrite(p) == writer \in {NoProc, p}

HoldingsOf(t) == {r \in token_holdings : r.token_symbol = t}

\* a log call that writes over the latest entry
LogOperationOverwrites(t, operation, batch) ==
  IF refresh_logs = << >>
    THEN << [token_symbol |-> t, operation |-> operation,
             refresh_batch_id |-> batch] >>
    ELSE [refresh_logs EXCEPT ![Len(refresh_logs)] =
            [token_symbol |-> t, operation |-> operation,
             refresh_batch_id |-> batch]]

\* a log call that writes its entry twice
LogOperationTwice(t, operation, batch) ==
  refresh_logs \o
    << [token_symbol |-> t, operation |-> operation, refresh_batch_id |-> batch],
       [token_symbol |-> t, operation |-> operation, refresh_batch_id |-> batch] >>

\* _log_operation: add a RefreshLog row and commit
LogOperation(t, operation, batch) ==
  Append(refresh_logs,
         [token_symbol |-> t, operation |-> operation, refresh_batch_id |-> batch])

\* a commit after which the rows of p's token are gone whether or not the
\* transaction deleted them
CommittedLosesRows(p) ==
  {r \in token_holdings : r.token_symbol # token_symbol[p]}
    \cup (IF pending[p].inserted THEN new_holdings[p] ELSE {})

\* the rows a reader sees once the open transaction of p is committed
Committed(p) ==
  {r \in token_holdings : r.token_symbol \notin pending[p].deleted}
    \cup (IF pending[p].inserted THEN new_holdings[p] ELSE {})

\* a rollback that leaves the open transaction as it is
RollbackKeepsPending(pend) == pend

\* db_session.rollback(): the open transaction is undone
Rollback(pend) == NoPending

\* lines 526-527: the single-flight guard
RefreshInProgress(existing_metadata) ==
  existing_metadata.exists /\ existing_metadata.refresh_in_progress

\* an emptiness check that never fires
NoHoldersCheckSkipped(hs) == FALSE

\* line 586: "if not holders"
NoHoldersFetched(hs) == hs = << >>

\* a swap whose DELETE is not restricted to the token
DeletedBySwapAll(t) == Tokens

\* a swap whose DELETE removes nothing
DeletedBySwapNothing(t) == {}

\* line 634: the rows the DELETE of the swap removes, by token
DeletedBySwap(t) == {t}

\* refresh_token_data has returned (or the process is gone): its locals and
\* the session are dropped, the finally block has reset request_count
Return(p) ==
  /\ pc' = [pc EXCEPT ![p] = "idle"]
  /\ token_symbol' = [token_symbol EXCEPT ![p] = "SAUCE"]
  /\ refresh_batch_id' = [refresh_batch_id EXCEPT ![p] = 0]
  /\ start_time' = [start_time EXCEPT ![p] = 0]
  /\ metadata' = [metadata EXCEPT ![p] = "none"]
  /\ holders' = [holders EXCEPT ![p] = << >>]
  /\ page' = [page EXCEPT ![p] = 0]
  /\ request_count' = [request_count EXCEPT ![p] = 0]
  /\ fetch_aborted' = [fetch_aborted EXCEPT ![p] = FALSE]
  /\ new_holdings' = [new_holdings EXCEPT ![p] = {}]
  /\ exc' = [exc EXCEPT ![p] = ""]
  /\ session_ok' = [session_ok EXCEPT ![p] = TRUE]

(***************************************************************************)
(* refresh_token_data                                                      *)
(***************************************************************************)
\* lines 512-528: the call, and the single-flight guard on the metadata row
Invoke(p, t) ==
  /\ pc[p] = "idle"
  /\ invocations < MaxInvocations
  /\ invocations' = invocations + 1
  /\ refresh_batch_id' = [refresh_batch_id EXCEPT ![p] = invocations + 1]
  /\ token_symbol' = [token_symbol EXCEPT ![p] = t]
  /\ start_time' = [start_time EXCEPT ![p] = clock]
  /\ clock' = clock + 1
  /\ LET existing_metadata == token_metadata[t]
         in_progress == RefreshInProgress(existing_metadata)
     IN  /\ pc' = [pc EXCEPT ![p] = IF in_progress THEN "failing" ELSE "starting"]
         /\ exc' = [exc EXCEPT ![p] = IF in_progress THEN "in_progress" ELSE ""]
         /\ metadata' = [metadata EXCEPT ![p] =
                           IF in_progress THEN "none"
                           ELSE IF existing_metadata.exists THEN "loaded"
                           ELSE "new"]
  /\ UNCHANGED << storeVars, writer, pending, faults, session_ok, fetchVars,
                  new_holdings >>
  /\ UNCHANGED sideVars

\* a start that commits "refresh started" without looking the decimals up
StartWithoutDecimalsCheck(p) ==
  /\ pc[p] = "starting"
  /\ CanWrite(p)
  /\ LET t == token_symbol[p] IN
     IF metadata[p] = "new" /\ token_metadata[t].exists
       THEN /\ pc' = [pc EXCEPT ![p] = "failing"]
            /\ exc' = [exc EXCEPT ![p] = "unexpected"]
            /\ session_ok' = [session_ok EXCEPT ![p] = FALSE]
            /\ UNCHANGED << token_metadata, metadata >>
       ELSE /\ token_metadata' =
                 [token_metadata EXCEPT ![t] =
                    [@ EXCEPT !.exists = TRUE,
                              !.last_refresh_started = start_time[p],
                              !.refresh_in_progress = TRUE,
                              !.error_message = ""]]
            /\ metadata' = [metadata EXCEPT ![p] = "loaded"]
            /\ pc' = [pc EXCEPT ![p] = "started"]
            /\ UNCHANGED << exc, session_ok >>
  /\ UNCHANGED << token_holdings, refresh_logs, writer, pending, clock,
                  invocations, faults, token_symbol, refresh_batch_id,
                  start_time, fetchVars, new_holdings >>
  /\ UNCHANGED sideVars

\* lines 546-564: decimals lookup, then the commit of "refresh started"
Start(p) ==
  /\ pc[p] = "starting"
  /\ LET t == token_symbol[p] IN
     IF t \notin DOMAIN decimals_config
       THEN \* ValueError: decimal information not found in config
            /\ pc' = [pc EXCEPT ![p] = "failing"]
            /\ exc' = [exc EXCEPT ![p] = "no_decimals"]
            /\ UNCHANGED << token_metadata, metadata, session_ok >>
       ELSE /\ CanWrite(p)
            /\ IF metadata[p] = "new" /\ token_metadata[t].exists
                 THEN \* INSERT violates unique(token_symbol): IntegrityError
                      /\ pc' = [pc EXCEPT ![p] = "failing"]
                      /\ exc' = [exc EXCEPT ![p] = "unexpected"]
                      /\ session_ok' = [session_ok EXCEPT ![p] = FALSE]
                      /\ UNCHANGED << token_metadata, metadata >>
                 ELSE /\ token_metadata' =
                           [token_metadata EXCEPT ![t] =
                              [@ EXCEPT !.exists = TRUE,
                                        !.last_refresh_started = start_time[p],
                                        !.refresh_in_progress = TRUE,
                                        !.error_message = ""]]
                      /\ metadata' = [metadata EXCEPT ![p] = "loaded"]
                      /\ pc' = [pc EXCEPT ![p] = "started"]
                      /\ UNCHANGED << exc, session_ok >>
  /\ UNCHANGED << token_holdings, refresh_logs, writer, pending, clock,
                  invocations, faults, token_symbol, refresh_batch_id,
                  start_time, fetchVars, new_holdings >>
  /\ UNCHANGED sideVars

\* lines 566-575: price update (no pricing service) and the 'fetch_started' log
LogStarted(p) ==
  /\ pc[p] = "started"
  /\ CanWrite(p)
  /\ refresh_logs' = LogOperation(token_symbol[p], "fetch_started",
                                  refresh_batch_id[p])
  /\ pc' = [pc EXCEPT ![p] = "fetching"]
  /\ page' = [page EXCEPT ![p] = 1]
  /\ UNCHANGED << token_metadata, token_holdings, writer, pending, clock,
                  invocations, faults, token_symbol, refresh_batch_id,
                  start_time, metadata, holders, request_count, fetch_aborted,
                  new_holdings, exc, session_ok >>
  /\ UNCHANGED sideVars

(***************************************************************************)
(* fetch_token_holders and _make_request_with_retry                        *)
(***************************************************************************)
\* the balances of one page as holder dicts (lines 340-364).  The code keeps
\* Decimal(raw_balance) / 10^decimals; the model keeps the same exact number
\* counted in smallest units, which orders the holders of a token alike
PageHolders(t, k) == ServerPages[t][k]

\* a loop that asks for the page it already has
NextCursorStays(k) == k

\* lines 408-411: the url of the next pass is the links.next of this page
NextCursor(k) == k + 1

\* one pass of the page loop (lines 322-419): _make_request_with_retry
\* returns the page ("ok"), a page without balances and without a next link
\* ("empty"), or None after errors/429s used up its attempts ("none")
PageRequest(p, response) ==
  /\ pc[p] = "fetching"
  /\ LET t == token_symbol[p]
     IN  /\ request_count' = [request_count EXCEPT ![p] = @ + 1]
         /\ CASE response = "ok" ->
                   \* the page is processed; follow links.next if there is one
                   /\ holders' = [holders EXCEPT ![p] = @ \o PageHolders(t, page[p])]
                   /\ IF page[p] < Len(ServerPages[t])
                        THEN /\ page' = [page EXCEPT ![p] = NextCursor(@)]
                             /\ UNCHANGED pc
                        ELSE /\ pc' = [pc EXCEPT ![p] = "fetched"]
                             /\ UNCHANGED page
                   /\ UNCHANGED fetch_aborted
              [] response = "empty" ->
                   \* nothing to add and no next link: the listing is complete
                   /\ pc' = [pc EXCEPT ![p] = "fetched"]
                   /\ UNCHANGED << holders, page, fetch_aborted >>
              [] response = "none" ->
                   \* "if not data: break": the holders accumulated so far
                   \* are what fetch_token_holders returns
                   /\ pc' = [pc EXCEPT ![p] = "fetched"]
                   /\ fetch_aborted' = [fetch_aborted EXCEPT ![p] = TRUE]
                   /\ UNCHANGED << holders, page >>
  /\ UNCHANGED << storeVars, writer, pending, clock, invocations, faults,
                  token_symbol, refresh_batch_id, start_time, metadata,
                  new_holdings, exc, session_ok >>
  /\ UNCHANGED sideVars

(***************************************************************************)
(* refresh_token_data, continued                                           *)
(***************************************************************************)
\* lines 586-629: empty check, statistics, all new rows built in memory
Compute(p) ==
  /\ pc[p] = "fetched"
  /\ IF NoHoldersFetched(holders[p])
       THEN \* ValueError("No holders data fetched")
            /\ pc' = [pc EXCEPT ![p] = "failing"]
            /\ exc' = [exc EXCEPT ![p] = "no_holders"]
            /\ UNCHANGED new_holdings
       ELSE /\ new_holdings' = [new_holdings EXCEPT ![p] =
                                  BuildHoldings(token_symbol[p],
                                                refresh_batch_id[p], holders[p])]
            /\ pc' = [pc EXCEPT ![p] = "swapping"]
            /\ UNCHANGED exc
  /\ UNCHANGED << storeVars, writer, pending, clock, invocations, faults,
                  token_symbol, refresh_batch_id, start_time, metadata,
                  fetchVars, session_ok >>
  /\ UNCHANGED sideVars

\* line 634: DELETE of the token's rows; opens the write transaction
SwapDelete(p) ==
  /\ pc[p] = "swapping"
  /\ writer = NoProc
  /\ writer' = p
  /\ pending' = [pending EXCEPT ![p].deleted = DeletedBySwap(token_symbol[p])]
  /\ pc' = [pc EXCEPT ![p] = "swap_deleted"]
  /\ UNCHANGED << storeVars, clock, invocations, faults, token_symbol,
                  refresh_batch_id, start_time, metadata, fetchVars,
                  new_holdings, exc, session_ok >>
  /\ UNCHANGED sideVars

\* line 638: bulk_save_objects(new_holdings), inside the same transaction
SwapInsert(p) ==
  /\ pc[p] = "swap_deleted"
  /\ pending' = [pending EXCEPT ![p].inserted = TRUE]
  /\ pc' = [pc EXCEPT ![p] = "swap_inserted"]
  /\ UNCHANGED << storeVars, writer, clock, invocations, faults, token_symbol,
                  refresh_batch_id, start_time, metadata, fetchVars,
                  new_holdings, exc, session_ok >>
  /\ UNCHANGED sideVars

\* lines 640-650: metadata "success" and the commit of the whole transaction
SwapCommit(p) ==
  /\ pc[p] = "swap_inserted"
  /\ LET t == token_symbol[p] IN
     /\ token_holdings' = Committed(p)
     /\ token_metadata' =
          [token_metadata EXCEPT ![t] =
             [@ EXCEPT !.last_refresh_completed = clock,
                       !.refresh_in_progress = FALSE,
                       !.last_refresh_success = TRUE,
                       !.total_accounts_fetched = Len(holders[p])]]
  /\ writer' = NoProc
  /\ pending' = [pending EXCEPT ![p] = NoPending]
  /\ pc' = [pc EXCEPT ![p] = "swap_committed"]
  /\ UNCHANGED << refresh_logs, clock, invocations, faults, token_symbol,
                  refresh_batch_id, start_time, metadata, fetchVars,
                  new_holdings, exc, session_ok >>
  /\ UNCHANGED sideVars

\* lines 652-672: the 'fetch_completed' log, return True
LogCompleted(p) ==
  /\ pc[p] = "swap_committed"
  /\ CanWrite(p)
  /\ refresh_logs' = LogOperation(token_symbol[p], "fetch_completed",
                                  refresh_batch_id[p])
  /\ Return(p)
  /\ UNCHANGED << token_metadata, token_holdings, writer, pending, clock,
                  invocations, faults >>
  /\ UNCHANGED sideVars

\* lines 657-660: a statement of the swap block raises (storage failure):
\* rollback, then RuntimeError("Database operation failed")
SwapFault(p) ==
  /\ pc[p] \in {"swapping", "swap_deleted", "swap_inserted", "swap_committed"}
  /\ faults < MaxFaults
  /\ faults' = faults + 1
  /\ pending' = [pending EXCEPT ![p] = Rollback(@)]
  /\ writer' = IF writer = p /\ Rollback(pending[p]) = NoPending
                 THEN NoProc ELSE writer
  /\ pc' = [pc EXCEPT ![p] = "failing"]
  /\ exc' = [exc EXCEPT ![p] = "db_failed"]
  /\ UNCHANGED << storeVars, clock, invocations, token_symbol,
                  refresh_batch_id, start_time, metadata, fetchVars,
                  new_holdings, session_ok >>
  /\ UNCHANGED sideVars

\* a handler that writes "failed" without the "if metadata:" test
HandlerCommitsUnguarded(p) ==
  /\ session_ok[p]
  /\ ~(metadata[p] = "new" /\ token_metadata[token_symbol[p]].exists)

\* lines 676-683 and 693-700: does the handler's commit go through?  Not when
\* no metadata object was bound, when an earlier flush failed and the session
\* was not rolled back, or when the pending INSERT hits the unique index;
\* the commit is then rolled back
HandlerCommits(p) ==
  /\ metadata[p] # "none"
  /\ session_ok[p]
  /\ ~(metadata[p] = "new" /\ token_metadata[token_symbol[p]].exists)

\* lines 674-705: both except branches; returns False
Handler(p) ==
  /\ pc[p] = "failing"
  /\ CanWrite(p)
  /\ LET t == token_symbol[p] IN
     /\ IF HandlerCommits(p)
          THEN \* the commit makes everything pending in the session durable
               /\ token_metadata' =
                    [token_metadata EXCEPT ![t] =
                       [@ EXCEPT !.exists = TRUE,
                                 !.refresh_in_progress = FALSE,
                                 !.last_refresh_success = FALSE,
                                 !.error_message = exc[p]]]
               /\ token_holdings' = Committed(p)
          ELSE UNCHANGED << token_metadata, token_holdings >>
     /\ refresh_logs' = LogOperation(t, "error", refresh_batch_id[p])
  /\ pending' = [pending EXCEPT ![p] = NoPending]
  /\ writer' = IF writer = p THEN NoProc ELSE writer
  /\ Return(p)
  /\ UNCHANGED << clock, invocations, faults >>
  /\ UNCHANGED sideVars

(***************************************************************************)
(* Process interruption                                                    *)
(***************************************************************************)
\* the process ends: its session is closed, an open transaction is rolled back
ProcessExit(p) ==
  /\ pending' = [pending EXCEPT ![p] = NoPending]
  /\ writer' = IF writer = p THEN NoProc ELSE writer
  /\ Return(p)

\* cli.py graceful_shutdown: SIGINT in process p, cleanup, sys.exit(1).  The
\* handler is installed for every command of the CLI, so the signal may also
\* reach a process that is not inside refresh_token_data (pc "idle").  The
\* cleanup opens a session (a connection) of its own and resets every row
\* that has refresh_in_progress set, whichever process set it.
Sigint(p) ==
  /\ LET in_progress_tokens ==
           {t \in Tokens : token_metadata[t].exists
                             /\ token_metadata[t].refresh_in_progress}
     IN  IF in_progress_tokens = {}
           THEN UNCHANGED token_metadata
           ELSE IF writer = p
             THEN \* the UPDATE waits for the write lock of the interrupted
                  \* session of this very process and times out:
                  \* "database is locked", caught and printed
                  UNCHANGED token_metadata
             ELSE /\ writer = NoProc
                  /\ token_metadata' =
                       [t \in Tokens |->
                          [token_metadata[t] EXCEPT !.refresh_in_progress = FALSE]]
  /\ ProcessExit(p)
  /\ UNCHANGED << token_holdings, refresh_logs, clock, invocations, faults >>
  /\ UNCHANGED sideVars

\* the process dies without running any handler (SIGKILL, power loss)
Crash(p) ==
  /\ pc[p] \in Running
  /\ ProcessExit(p)
  /\ UNCHANGED << storeVars, clock, invocations, faults >>
  /\ UNCHANGED sideVars

(***************************************************************************)
(* Specification                                                           *)
(***************************************************************************)
Next ==
  \E p \in Procs :
    \/ \E t \in Tokens : Invoke(p, t)
    \/ Start(p)
    \/ LogStarted(p)
    \/ \E response \in Responses : PageRequest(p, response)
    \/ Compute(p)
    \/ SwapDelete(p)
    \/ SwapInsert(p)
    \/ SwapCommit(p)
    \/ LogCompleted(p)
    \/ SwapFault(p)
    \/ Handler(p)
    \/ Sigint(p)
    \/ Crash(p)

Spec == Init /\ [][Next]_allVars

TypeOK ==
  /\ writer \in Procs \cup {NoProc}
  /\ \A p \in Procs : pc[p] \in {"idle"} \cup Running
  /\ invocations \in 0..MaxInvocations

(***************************************************************************)
(* Properties                                                              *)
(***************************************************************************)
\* the invocation of q for t has committed "refresh started" and has reached
\* neither the commit of the swap nor an exception handler
InFlight(q, t) ==
  /\ token_symbol[q] = t
  /\ pc[q] \in {"started", "fetching", "fetched", "swapping", "swap_deleted",
                "swap_inserted"}

\* the invocation of p was turned away by the single-flight guard
Rejected(p) == pc[p] = "failing" /\ exc[p] = "in_progress"

\* the invocation of p passed the guard and is now in an exception handler
FailedAfterGuard(p) == pc[p] = "failing" /\ exc[p] # "in_progress"

ErrorEntry(p) ==
  [token_symbol |-> token_symbol[p], operation |-> "error",
   refresh_batch_id |-> refresh_batch_id[p]]

MetadataShowsFailed(row) ==
  /\ row.exists
  /\ ~row.refresh_in_progress
  /\ ~row.last_refresh_success
  /\ row.error_message # ""

\* C1: single-flight per token.  An invocation for token t made while an
\* earlier invocation for t is in flight (it has committed
\* refresh_in_progress=true and has reached neither Completed nor Failed) is
\* rejected; a rejected invocation issues no page request and never enters
\* Fetching, so the two produce one Fetching sequence and one rejection.
C1_SingleFlight ==
  [][\A p \in Procs :
       /\ \A t \in Tokens :
            (Invoke(p, t) /\ \E q \in Procs \ {p} : InFlight(q, t))
              => Rejected(p)'
       /\ Rejected(p) => /\ request_count[p] = 0
                         /\ pc'[p] \in {"failing", "idle"}]_vars

\* C2: the guard and the commit of refresh_in_progress=true act as one atomic
\* check-and-set: of two invocations for the same token at most one passes
\* the guard and enters Fetching.
C2_AtomicCheckAndSet ==
  \A p, q \in Procs :
    (p # q /\ token_symbol[p] = token_symbol[q])
      => ~(pc[p] = "fetching" /\ pc[q] = "fetching")

\* C3: a storage failure at the DELETE, the INSERT, the metadata update or
\* the commit of the swap rolls the whole swap back: the failing step and
\* the handler that follows leave the committed holder rows exactly as they
\* were, nothing of the swap stays pending, and the invocation ends with
\* refresh_in_progress=false and last_refresh_success=false.
C3_SwapRollsBack ==
  [][\A p \in Procs :
       /\ (SwapFault(p) /\ pc[p] # "swap_committed")
            => /\ token_holdings' = token_holdings
               /\ pending'[p] = NoPending
               /\ pc'[p] = "failing"
       /\ (Handler(p) /\ exc[p] = "db_failed")
            => /\ token_holdings' = token_holdings
               /\ MetadataShowsFailed(token_metadata'[token_symbol[p]])]_vars

\* C3 witness: a refresh of the seeded token failed inside the swap and was
\* handled; the rows of the earlier batch are all still there
C3_FaultHandled ==
  /\ token_metadata["SAUCE"].error_message = "db_failed"
  /\ ~token_metadata["SAUCE"].last_refresh_success
  /\ SeedHoldings # {}
  /\ HoldingsOf("SAUCE") = SeedHoldings

\* C4: a page request that fails for good aborts the refresh: the holders of
\* the pages fetched before it are never ranked or persisted.
C4_PageFailureAborts ==
  \A p \in Procs :
    fetch_aborted[p] => pc[p] \in {"fetched", "failing"}

\* C5: a rejected refresh changes neither the metadata row nor the holder
\* rows (the guard's rejection and the handler that follows leave both
\* tables as they were), and it is not retried: the invocation only returns.
C5_RejectionChangesNothing ==
  [][\A p \in Procs :
       /\ ((\E t \in Tokens : Invoke(p, t)) /\ Rejected(p)')
            => UNCHANGED << token_metadata, token_holdings >>
       /\ (Rejected(p) /\ Handler(p))
            => /\ UNCHANGED << token_metadata, token_holdings >>
               /\ pc'[p] = "idle"
       /\ Rejected(p) => pc'[p] \notin {"starting", "started", "fetching"}]_vars

\* C5 witness: a rejected refresh of the seeded token has returned (its
\* 'error' entry is logged, it never logged 'fetch_started'); the token is
\* still in progress with no error message and its rows are in place
C5_RejectedReturned ==
  /\ \E i \in DOMAIN refresh_logs :
       /\ refresh_logs[i].token_symbol = "SAUCE"
       /\ refresh_logs[i].operation = "error"
       /\ \A j \in DOMAIN refresh_logs :
            refresh_logs[j].operation = "fetch_started"
              => refresh_logs[j].refresh_batch_id # refresh_logs[i].refresh_batch_id
  /\ token_metadata["SAUCE"].refresh_in_progress
  /\ token_metadata["SAUCE"].error_message = ""
  /\ SeedHoldings # {}
  /\ HoldingsOf("SAUCE") = SeedHoldings

\* C6: in every committed store state all holder rows of a token carry one
\* refresh_batch_id, at most 10 of them are top holder rows and at most 99
\* are percentile marker rows.
C6_OneBatchPerToken ==
  \A t \in Tokens :
    /\ \A r1, r2 \in HoldingsOf(t) : r1.refresh_batch_id = r2.refresh_batch_id
    /\ Cardinality({r \in HoldingsOf(t) : r.is_top_holder}) <= 10
    /\ Cardinality({r \in HoldingsOf(t) : r.is_percentile_marker}) <= 99

\* C6 witness: a second batch has replaced the seeded one, and a token with
\* more than 10 holders has its 10 top rows and 99 marker rows
C6_BatchReplaced ==
  /\ HoldingsOf("SAUCE") # {}
  /\ \A r \in HoldingsOf("SAUCE") : r.refresh_batch_id # SeedBatch
  /\ Cardinality({r \in HoldingsOf("KARATE") : r.is_top_holder}) = 10
  /\ Cardinality({r \in HoldingsOf("KARATE") : r.is_percentile_marker}) = 99

\* C7: the last good snapshot stays queryable: the rows of a token never
\* become empty, and when an invocation ends in the exception handler
\* (Failed or rejected) the rows visible for its token are those of a
\* Completed refresh, so none of them carries the batch id of the failed one.
C7_LastGoodSnapshot ==
  [][/\ \A t \in Tokens : HoldingsOf(t) # {} => HoldingsOf(t)' # {}
     /\ \A p \in Procs :
          Handler(p) =>
            \A r \in HoldingsOf(token_symbol[p])' :
              r.refresh_batch_id # refresh_batch_id[p]]_vars

\* C8: an invocation that passed the guard and then fails ends with the
\* committed metadata showing refresh_in_progress=false,
\* last_refresh_success=false and an error message, and with one 'error'
\* entry appended to the audit log.
C8_FailureRecorded ==
  [][\A p \in Procs :
       (FailedAfterGuard(p) /\ Handler(p))
         => /\ MetadataShowsFailed(token_metadata'[token_symbol[p]])
            /\ refresh_logs' = Append(refresh_logs, ErrorEntry(p))]_vars

\* C9: a fetch that yields zero holders ends Failed with an error message
\* and never reaches the swap; the check and the handler leave the token's
\* holder rows untouched.
C9_ZeroHoldersFails ==
  [][\A p \in Procs :
       /\ (Compute(p) /\ holders[p] = << >>)
            => /\ pc'[p] = "failing"
               /\ token_holdings' = token_holdings
       /\ pc[p] \in {"swapping", "swap_deleted", "swap_inserted"}
            => new_holdings[p] # {}
       /\ (Handler(p) /\ exc[p] = "no_holders")
            => /\ token_holdings' = token_holdings
               /\ MetadataShowsFailed(token_metadata'[token_symbol[p]])]_vars

\* C9 witness: a refresh of the seeded token fetched nothing and was
\* handled; the rows of the earlier batch are all still there
C9_EmptyFetchHandled ==
  /\ token_metadata["SAUCE"].error_message = "no_holders"
  /\ ~token_metadata["SAUCE"].refresh_in_progress
  /\ ~token_metadata["SAUCE"].last_refresh_success
  /\ SeedHoldings # {}
  /\ HoldingsOf("SAUCE") = SeedHoldings

\* C10: a token whose run was interrupted after the "refresh started" commit
\* stays in progress, and refreshes of it are rejected, until the cleanup
\* path runs; once the cleanup path has run no metadata row has
\* refresh_in_progress=true, and a refresh invoked then is accepted.
C10_CleanupUnblocks ==
  [][\A p \in Procs :
       /\ \A t \in Tokens :
            (Invoke(p, t) /\ token_metadata[t].refresh_in_progress)
              => Rejected(p)'
       /\ Crash(p) => \A t \in Tokens :
                        token_metadata'[t].refresh_in_progress
                          = token_metadata[t].refresh_in_progress
       /\ Sigint(p) => \A t \in Tokens :
                         ~token_metadata'[t].refresh_in_progress
       /\ \A t \in Tokens :
            (Invoke(p, t) /\ ~token_metadata[t].refresh_in_progress)
              => pc'[p] = "starting"]_vars

\* the step is one of process p
StepOf(p) ==
  \/ pc'[p] # pc[p]
  \/ holders'[p] # holders[p]
  \/ request_count'[p] # request_count[p]

\* C25: a refresh of a token without a decimals entry in the configuration
\* fails before any network call: it raises at the decimals lookup, never
\* reaches the price update or the page loop, issues no page request, and
\* none of its steps changes a holder row.
C25_NoDecimalsFailsBeforeNetwork ==
  [][\A p \in Procs :
       (token_symbol[p] \notin DOMAIN decimals_config /\ pc[p] # "idle") =>
         /\ Start(p) => (pc'[p] = "failing" /\ exc'[p] = "no_decimals")
         /\ pc'[p] \in {"idle", "starting", "failing"}
         /\ request_count'[p] = 0
         /\ StepOf(p) => token_holdings' = token_holdings]_vars

\* C25 witness: a refresh has failed at the decimals lookup without a request
C25_FailedAtDecimals ==
  \E p \in Procs :
    /\ pc[p] = "failing"
    /\ exc[p] = "no_decimals"
    /\ token_symbol[p] \notin DOMAIN decimals_config
    /\ request_count[p] = 0

\* C26: the commit of refresh_in_progress=true precedes the first price or
\* page request of an accepted refresh, so at every moment of Fetching,
\* Computing and Swapping the committed metadata row of the token exists and
\* shows refresh_in_progress=true.
C26_FlagSetWhileRunning ==
  \A p \in Procs :
    pc[p] \in {"started", "fetching", "fetched", "swapping", "swap_deleted",
               "swap_inserted"}
      => /\ token_metadata[token_symbol[p]].exists
         /\ token_metadata[token_symbol[p]].refresh_in_progress

\* the invocation of p has not reached the swap block
BeforeSwap(p) ==
  \/ pc[p] \in {"starting", "started", "fetching", "fetched"}
  \/ pc[p] = "failing" /\ exc[p] # "db_failed"

\* C27: no holder row is deleted or inserted, not even inside an open
\* transaction, before fetching, ranking and the building of the new rows
\* are done; a failure in Starting, Fetching or Computing, its handler
\* included, leaves the holder store as it was.
C27_NoMutationBeforeSwap ==
  [][\A p \in Procs :
       (BeforeSwap(p) /\ StepOf(p)) =>
         /\ token_holdings' = token_holdings
         /\ pending'[p] = NoPending]_vars

\* C27 witness: a refresh of a token with stored rows has failed in
\* Computing (nothing was fetched)
C27_FailedInComputing ==
  \E p \in Procs :
    /\ pc[p] = "failing"
    /\ exc[p] = "no_holders"
    /\ HoldingsOf(token_symbol[p]) # {}

\* C29: when a refresh has ended with last_refresh_success=false, the rows
\* of the token are those that were there before it: no row carries the
\* batch id of an invocation that ended in the error handler.
C29_FailedKeepsOldRows ==
  \A t \in Tokens :
    MetadataShowsFailed(token_metadata[t]) =>
      \A i \in DOMAIN refresh_logs :
        (refresh_logs[i].token_symbol = t /\ refresh_logs[i].operation = "error")
          => \A r \in HoldingsOf(t) :
               r.refresh_batch_id # refresh_logs[i].refresh_batch_id

\* C30: while a refresh of a token is running (after its Starting commit,
\* before Completed or Failed) the committed refresh_in_progress flag of the
\* token stays true, whatever other processes do, the interrupt cleanup
\* among it.
C30_FlagStaysSet ==
  [][\A p \in Procs :
       LET t == token_symbol[p] IN
       ( /\ InFlight(p, t)
         /\ InFlight(p, t)'
         /\ token_metadata[t].refresh_in_progress )
         => token_metadata'[t].refresh_in_progress]_vars

\* C31: the pages of one refresh are fetched one after the other.  While a
\* refresh is in its page loop the cursor points at a page k of the
\* listing, pages 1..k-1 are exactly what has been received, and one
\* request was made for each of them; a step makes at most one request; and
\* every invocation that enters the page loop, one following a failed fetch
\* included, enters it at page 1 with nothing carried over.
C31_SequentialPages ==
  [][\A p \in Procs :
       /\ pc'[p] = "fetching" =>
            /\ page'[p] \in 1..Len(ServerPages[token_symbol'[p]])
            /\ holders'[p] = AllPages(token_symbol'[p], page'[p] - 1)
            /\ request_count'[p] = page'[p] - 1
       /\ request_count'[p] <= request_count[p] + 1
       /\ (pc[p] # "fetching" /\ pc'[p] = "fetching") =>
            /\ page'[p] = 1
            /\ holders'[p] = << >>
            /\ request_count'[p] = 0
       /\ (\E response \in Responses : PageRequest(p, response)) =>
            (page'[p] # page[p] =>
               /\ page'[p] = page[p] + 1
               /\ holders'[p] = holders[p] \o PageHolders(token_symbol[p], page[p]))]_vars

\* C31 witness: a process whose token has a failed refresh on record is at
\* the first page again, in a later invocation
C31_RestartedAtFirstPage ==
  \E p \in Procs :
    /\ pc[p] = "fetching"
    /\ page[p] = 1
    /\ \E i \in DOMAIN refresh_logs :
         /\ refresh_logs[i].operation = "error"
         /\ refresh_logs[i].token_symbol = token_symbol[p]
         /\ refresh_logs[i].refresh_batch_id < refresh_batch_id[p]

\* the step is a step of refresh_token_data in process p
RefreshStep(p) ==
  \/ \E t \in Tokens : Invoke(p, t)
  \/ Start(p)
  \/ LogStarted(p)
  \/ \E response \in Responses : PageRequest(p, response)
  \/ Compute(p)
  \/ SwapDelete(p)
  \/ SwapInsert(p)
  \/ SwapCommit(p)
  \/ LogCompleted(p)
  \/ SwapFault(p)
  \/ Handler(p)

\* C35: tokens refresh independently.  No step of a refresh of token A,
\* whether the refresh completes, fails or is rejected, changes the metadata
\* row or the holder rows of another token B, and an invocation for A is
\* accepted whenever A's own row does not show a refresh in progress,
\* whatever B's row shows.
C35_TokensIndependent ==
  [][\A p \in Procs :
       LET a == IF pc[p] = "idle" THEN token_symbol'[p] ELSE token_symbol[p] IN
       /\ RefreshStep(p) =>
            \A b \in Tokens \ {a} :
              /\ token_metadata'[b] = token_metadata[b]
              /\ {r \in token_holdings' : r.token_symbol = b} = HoldingsOf(b)
       /\ \A t \in Tokens :
            (Invoke(p, t) /\ ~RefreshInProgress(token_metadata[t]))
              => pc'[p] = "starting"]_vars

\* C35 witness: the refresh of one token has committed its swap while the
\* row of another token, which has holder rows, shows a refresh in progress
C35_CommittedBesideRunning ==
  \E p \in Procs, b \in Tokens :
    /\ pc[p] = "swap_committed"
    /\ b # token_symbol[p]
    /\ token_metadata[b].refresh_in_progress
    /\ HoldingsOf(b) # {}

\* C37: when an invocation returns True, the committed metadata row of its
\* token (no later invocation having started on it since) shows
\* refresh_in_progress=false, last_refresh_success=true, an empty
\* error_message, last_refresh_completed not earlier than
\* last_refresh_started, and total_accounts_fetched equal to the number of
\* holders ranked in the batch.
C37_SuccessMetadata ==
  [][\A p \in Procs :
       LET row == token_metadata'[token_symbol[p]] IN
       (LogCompleted(p) /\ row.last_refresh_started = start_time[p]) =>
         /\ row.exists
         /\ ~row.refresh_in_progress
         /\ row.last_refresh_success
         /\ row.error_message = ""
         /\ row.last_refresh_completed >= row.last_refresh_started
         /\ row.total_accounts_fetched = Len(holders[p])]_vars

\* the entries of a log with this batch id and one of these operations
EntriesOf(logs, batch, operations) ==
  {i \in DOMAIN logs : /\ logs[i].refresh_batch_id = batch
                       /\ logs[i].operation \in operations}

\* the invocation of p failed before the 'fetch_started' entry is written
FailedInStarting(p) == exc[p] \in {"no_decimals", "unexpected"}

\* C38 (as the code has it): every page request is preceded by the
\* 'fetch_started' entry of its invocation; an accepted invocation that
\* returns leaves exactly one terminal entry with its refresh_batch_id,
\* 'fetch_completed' if it returns True and 'error' if it returns False,
\* and, unless it failed in Starting (decimals lookup, first commit), a
\* 'fetch_started' entry before it.
C38_StartedThenOneTerminal ==
  [][\A p \in Procs :
       LET batch == refresh_batch_id[p]
           terminal == EntriesOf(refresh_logs', batch, {"fetch_completed", "error"})
           started == EntriesOf(refresh_logs', batch, {"fetch_started"})
       IN  /\ (\E response \in Responses : PageRequest(p, response)) =>
                EntriesOf(refresh_logs, batch, {"fetch_started"}) # {}
           /\ LogCompleted(p) =>
                /\ Cardinality(terminal) = 1
                /\ \A i \in terminal : refresh_logs'[i].operation = "fetch_completed"
                /\ Cardinality(started) = 1
                /\ \A i \in started : \A j \in terminal : i < j
           /\ (Handler(p) /\ FailedAfterGuard(p)) =>
                /\ Cardinality(terminal) = 1
                /\ \A i \in terminal : refresh_logs'[i].operation = "error"
                /\ ~FailedInStarting(p) =>
                     /\ Cardinality(started) = 1
                     /\ \A i \in started : \A j \in terminal : i < j]_vars

\* C38 (as stated): every accepted invocation that returns has appended a
\* 'fetch_started' entry and afterwards exactly one terminal entry with the
\* same refresh_batch_id, 'fetch_completed' if it returns True, 'error' if
\* it returns False.
C38_AlwaysStarted ==
  [][\A p \in Procs :
       LET batch == refresh_batch_id[p]
           terminal == EntriesOf(refresh_logs', batch, {"fetch_completed", "error"})
           started == EntriesOf(refresh_logs', batch, {"fetch_started"})
       IN  /\ LogCompleted(p) =>
                /\ Cardinality(terminal) = 1
                /\ \A i \in terminal : refresh_logs'[i].operation = "fetch_completed"
                /\ Cardinality(started) = 1
           /\ (Handler(p) /\ FailedAfterGuard(p)) =>
                /\ Cardinality(terminal) = 1
                /\ \A i \in terminal : refresh_logs'[i].operation = "error"
                /\ Cardinality(started) = 1]_vars

\* C38 witness: an invocation that had logged 'fetch_started' has failed
\* and logged 'error', and another has logged 'fetch_completed'
C38_BothEndingsLogged ==
  /\ \E i, j \in DOMAIN refresh_logs :
       /\ i < j
       /\ refresh_logs[i].operation = "fetch_started"
       /\ refresh_logs[j].operation = "error"
       /\ refresh_logs[i].refresh_batch_id = refresh_logs[j].refresh_batch_id
  /\ \E i, j \in DOMAIN refresh_logs :
       /\ i < j
       /\ refresh_logs[i].operation = "fetch_started"
       /\ refresh_logs[j].operation = "fetch_completed"
       /\ refresh_logs[i].refresh_batch_id = refresh_logs[j].refresh_batch_id
       /\ refresh_logs[i].refresh_batch_id # SeedBatch

\* C40: the audit log is append-only.  Over refreshes, rejections,
\* failures and interrupt cleanups no step changes or removes an entry
\* that is in the log, and the number of entries never decreases.
C40_LogAppendOnly ==
  [][/\ Len(refresh_logs') >= Len(refresh_logs)
     /\ \A i \in DOMAIN refresh_logs : refresh_logs'[i] = refresh_logs[i]]_vars

\* C40 witness: the log holds a completed refresh and, after it, the error
\* entry of a rejected or failed one
C40_LogGrown ==
  \E i, j, k \in DOMAIN refresh_logs :
    /\ i < j /\ j < k
    /\ refresh_logs[i].operation = "fetch_started"
    /\ refresh_logs[i].refresh_batch_id # SeedBatch
    /\ refresh_logs[j].operation = "fetch_completed"
    /\ refresh_logs[j].refresh_batch_id = refresh_logs[i].refresh_batch_id
    /\ refresh_logs[k].operation = "error"

(***************************************************************************)
(* The percentile / rank engine on its own                                 *)
(* (calculate_top_holders_and_percentiles called directly, as the          *)
(* repository's tests do)                                                  *)
(***************************************************************************)
\* the refresh engine is at rest on an empty store
RefreshIdle == RefreshInit /\ token_holdings = {}

\* the i-th holder of an input list
AccountName(i) == "0.0." \o ToString(100 + i)

\* balances of the holders of an input list: two values give every pattern
\* of ties and inversions
EngineBalances == {1, 2}

\* the unsorted holder lists the engine is called on
EngineInputs ==
  UNION {{[i \in 1..n |-> [account_id |-> AccountName(i), balance |-> f[i]]]
            : f \in [1..n -> EngineBalances]} : n \in 0..MaxHolders}

EngineInit ==
  /\ RefreshIdle
  /\ RetryIdle
  /\ HbarIdle
  /\ IngestIdle
  /\ FilterIdle
  /\ PricingIdle
  /\ engine_input \in EngineInputs
  /\ engine_results = << >>
  /\ position_probe = NoProbe

\* a list handed to the engine in place
InputSortedInPlace(holders_in) == SortDesc(holders_in)

\* line 443: sorted() builds a new list, the caller's list is left as it is
InputAfterEngine(holders_in) == holders_in

\* one call of calculate_top_holders_and_percentiles on engine_input
RunEngine ==
  /\ Len(engine_results) < MaxEngineRuns
  /\ engine_results' =
       Append(engine_results,
              [top_holders |-> TopHolders(engine_input),
               percentile_holders |-> PercentileHolders(engine_input)])
  /\ engine_input' = InputAfterEngine(engine_input)
  /\ UNCHANGED << position_probe, outsideEngine >>

\* lines 471-495 for one percentile of a list of PROBE_SIZE holders (the
\* list itself is not built)
ProbePosition(percentile) ==
  /\ engine_input = << >>
  /\ engine_results = << >>
  /\ LET position == PercentilePosition(percentile, PROBE_SIZE)
     IN  position_probe' = [total_accounts |-> PROBE_SIZE,
                            percentile |-> percentile,
                            position |-> position, rank |-> position + 1]
  /\ UNCHANGED << engine_input, engine_results, outsideEngine >>

EngineNext ==
  \/ RunEngine
  \/ \E percentile \in 1..MAX_PERCENTILE : ProbePosition(percentile)

EngineSpec == EngineInit /\ [][EngineNext]_allVars

\* where a holder stands in the input list
IndexOf(account_id) ==
  CHOOSE i \in DOMAIN engine_input : engine_input[i].account_id = account_id

\* how many holders of the input have a balance above / not below b
CountAbove(b) == Cardinality({i \in DOMAIN engine_input : engine_input[i].balance > b})
CountNotBelow(b) ==
  Cardinality({i \in DOMAIN engine_input : engine_input[i].balance >= b})

\* C13: on N holders the engine returns exactly min(N,10) top-holder rows
\* and, for N >= 1, exactly 99 percentile rows, one per percentile from 99
\* down to 1, every rank within 1..N; on N = 0 it returns two empty lists.
C13_EngineOutputSizes ==
  \A k \in DOMAIN engine_results :
    LET N == Len(engine_input)
        r == engine_results[k]
    IN  /\ Len(r.top_holders) = (IF N < 10 THEN N ELSE 10)
        /\ \A i \in DOMAIN r.top_holders : r.top_holders[i].rank \in 1..N
        /\ N >= 1 =>
             /\ Len(r.percentile_holders) = 99
             /\ \A i \in 1..99 :
                  /\ r.percentile_holders[i].percentile = 100 - i
                  /\ r.percentile_holders[i].rank \in 1..N
        /\ N = 0 => (r.top_holders = << >> /\ r.percentile_holders = << >>)

\* C13 witness: the engine has run on more than 10 holders and returned 10
\* top rows and 99 percentile rows
C13_LongListRanked ==
  \E k \in DOMAIN engine_results :
    /\ Len(engine_input) > 10
    /\ Len(engine_results[k].top_holders) = 10
    /\ Len(engine_results[k].percentile_holders) = 99

\* C14: for N >= 1 and p in 1..99 the marker of percentile p is the holder at
\* index clamp(floor(p/100 * N) - 1, 0, N-1) of the balance-descending list
\* and has rank index + 1; for N = 1000 that is position 499 (rank 500) for
\* p = 50 and position 989 (rank 990) for p = 99.
C14_MarkerAtPosition ==
  /\ \A k \in DOMAIN engine_results :
       LET N == Len(engine_input) IN
       \A p \in 1..99 :
         LET floored == (p * N) \div 100
             pos == IF floored - 1 < 0 THEN 0
                    ELSE IF floored - 1 > N - 1 THEN N - 1 ELSE floored - 1
             marker == engine_results[k].percentile_holders[100 - p]
         IN  N >= 1 =>
               /\ marker.percentile = p
               /\ marker.rank = pos + 1
               /\ CountAbove(marker.balance) <= pos
               /\ CountNotBelow(marker.balance) >= pos + 1
  /\ position_probe # NoProbe =>
       LET N == position_probe.total_accounts
           p == position_probe.percentile
           floored == (p * N) \div 100
           pos == IF floored - 1 < 0 THEN 0
                  ELSE IF floored - 1 > N - 1 THEN N - 1 ELSE floored - 1
       IN  /\ position_probe.position = pos
           /\ position_probe.rank = pos + 1
           /\ (N = 1000 /\ p = 50) =>
                (position_probe.position = 499 /\ position_probe.rank = 500)
           /\ (N = 1000 /\ p = 99) =>
                (position_probe.position = 989 /\ position_probe.rank = 990)

\* C14 witness: the percentile loop has placed p = 50 of 1000 holders
C14_MedianOfThousand ==
  /\ position_probe.total_accounts = 1000
  /\ position_probe.percentile = 50
  /\ position_probe.position = 499

\* C15 (as the code has it): for N = 1000 holders the marker of p = 1 is the
\* holder at position 9 (rank 10).
C15_FirstPercentileOfThousand ==
  (position_probe.total_accounts = 1000 /\ position_probe.percentile = 1)
    => (position_probe.position = 9 /\ position_probe.rank = 10)

\* C15 (as the specification has it): for N = 1000 holders the marker of
\* p = 1 is the holder at position 8 (rank 9).
C15_FirstPercentileAtEight ==
  (position_probe.total_accounts = 1000 /\ position_probe.percentile = 1)
    => (position_probe.position = 8 /\ position_probe.rank = 9)

\* C15 witness: the percentile loop has placed p = 1 of 1000 holders
C15_FirstPercentilePlaced ==
  /\ position_probe.total_accounts = 1000
  /\ position_probe.percentile = 1
  /\ position_probe.rank = position_probe.position + 1

\* C16: for fixed N the position is non-decreasing in p: along the emitted
\* list (p from 99 down to 1) ranks never increase and balances never
\* decrease, and no smaller percentile has a larger position.
C16_PositionMonotonic ==
  /\ \A k \in DOMAIN engine_results :
       Len(engine_input) >= 1 =>
         \A i \in 1..98 :
           LET hi == engine_results[k].percentile_holders[i]
               lo == engine_results[k].percentile_holders[i + 1]
           IN  /\ hi.percentile = lo.percentile + 1
               /\ hi.rank >= lo.rank
               /\ hi.balance <= lo.balance
  /\ position_probe # NoProbe =>
       \A q \in 1..position_probe.percentile :
         PercentilePosition(q, position_probe.total_accounts)
           <= position_probe.position

\* C16 witness: markers of one run stand at different ranks with different
\* balances
C16_MarkersSpread ==
  \E k \in DOMAIN engine_results :
    /\ Len(engine_input) >= 1
    /\ engine_results[k].percentile_holders[1].rank
         > engine_results[k].percentile_holders[99].rank
    /\ engine_results[k].percentile_holders[1].balance
         < engine_results[k].percentile_holders[99].balance

\* C17: two runs of the engine on the same unsorted input return identical
\* lists, holders of equal balance are ranked in their input order, and the
\* input list is left as it was.
C17_EngineIdempotentStable ==
  /\ \A j, k \in DOMAIN engine_results : engine_results[j] = engine_results[k]
  /\ \A i \in DOMAIN engine_input : engine_input[i].account_id = AccountName(i)
  /\ \A k \in DOMAIN engine_results :
       \A a, b \in Range(engine_results[k].top_holders)
                     \cup Range(engine_results[k].percentile_holders) :
         (a.balance = b.balance /\ a.rank < b.rank)
           => IndexOf(a.account_id) < IndexOf(b.account_id)

\* C17 witness: the engine has run twice on an input that is not sorted and
\* has holders of equal balance among its top rows
C17_TiesRankedTwice ==
  /\ Len(engine_results) = 2
  /\ \E i, j \in DOMAIN engine_input :
       i < j /\ engine_input[i].balance < engine_input[j].balance
  /\ \E a, b \in Range(engine_results[2].top_holders) :
       a.rank < b.rank /\ a.balance = b.balance

\* C36: the top list is ordered by non-increasing balance and its ranks are
\* 1..K in list order, K = min(10, N); every holder outside it has a
\* balance not greater than that of the K-th top holder; top rows carry
\* is_top_holder, not is_percentile_marker, and no percentile (0 stands for
\* None), percentile rows carry the opposite flags and their percentile.
C36_TopListOrdered ==
  \A k \in DOMAIN engine_results :
    LET N == Len(engine_input)
        top == engine_results[k].top_holders
        K == Len(top)
        in_top == {top[i].account_id : i \in DOMAIN top}
    IN  /\ K = (IF N < 10 THEN N ELSE 10)
        /\ \A i \in 1..K :
             /\ top[i].rank = i
             /\ \E j \in DOMAIN engine_input :
                  /\ engine_input[j].account_id = top[i].account_id
                  /\ engine_input[j].balance = top[i].balance
             /\ i < K => top[i].balance >= top[i + 1].balance
             /\ top[i].is_top_holder
             /\ ~top[i].is_percentile_marker
             /\ top[i].percentile = 0
        /\ Cardinality(in_top) = K
        /\ \A j \in DOMAIN engine_input :
             engine_input[j].account_id \notin in_top
               => engine_input[j].balance <= top[K].balance
        /\ \A i \in DOMAIN engine_results[k].percentile_holders :
             LET marker == engine_results[k].percentile_holders[i]
             IN  /\ ~marker.is_top_holder
                 /\ marker.is_percentile_marker
                 /\ marker.percentile \in 1..99

\* C36 witness: the engine has run on 11 holders that were not in order;
\* the top list starts above where it ends, and the last holder is left out
\* of it
C36_SmallestLeftOut ==
  \E k \in DOMAIN engine_results :
    /\ Len(engine_input) = 11
    /\ engine_input[1].balance < engine_input[2].balance
    /\ engine_results[k].top_holders[1].balance
         > engine_results[k].top_holders[10].balance
    /\ \A i \in 1..10 :
         engine_results[k].top_holders[i].account_id # engine_input[11].account_id

(***************************************************************************)
(* TokenFilterService and the page processing of fetch_token_holders on    *)
(* their own (the service called directly, as the repository's tests do,   *)
(* and the fetch -> USD step -> engine pipeline)                           *)
(***************************************************************************)
\* A balance value as it arrives in a record:
\*   number  an int, float or Decimal          digits  a str of a number, "2"
\*   none    None                              empty   ""
\*   text    a str that is no number, "invalid"
\*   dotted  a str of digits, dots and dashes that is no number, "1.2.3"
WellFormedBalances ==
  {[kind |-> "number", value |-> v] : v \in 1..3}
    \cup {[kind |-> "digits", value |-> 2]}
MalformedBalances ==
  {[kind |-> k, value |-> 0] : k \in {"none", "empty", "text", "dotted"}}

\* the lists the filter service and the page processing are called on
FilterInputs ==
  UNION {{[i \in 1..n |-> [account_id |-> AccountName(i), balance |-> f[i]]]
            : f \in [1..n -> WellFormedBalances \cup MalformedBalances]}
           : n \in 0..MaxFilterHolders}

\* prices in USD per token (0: the pricing service returns None) and
\* thresholds in USD (0: no min_usd_value given)
FilterPrices == {0, 2, 3}
FilterThresholds == {0, 4, 6}

FilterInit ==
  /\ RefreshIdle
  /\ RetryIdle
  /\ HbarIdle
  /\ IngestIdle
  /\ EngineIdle
  /\ PricingIdle
  /\ filter_raw \in FilterInputs
  /\ filter_price \in FilterPrices
  /\ filter_min_usd \in FilterThresholds
  /\ filter_op = "idle"
  /\ filter_holders = << >>
  /\ filter_output = << >>
  /\ filter_ranking = NoRanking

\* a pricing check that never finds the price missing
PriceNeverUnavailable(price_usd) == FALSE

\* lines 30 and 74: `if not price_usd` (None, or a price of zero)
PriceUnavailable(price_usd) == price_usd = 0

\* a threshold test that also drops the holder standing at the threshold
KeepsHolderAbove(usd_value, min_usd_value) == usd_value > min_usd_value

\* line 54: `if min_usd_value and usd_value < min_usd_value: continue`
KeepsHolder(usd_value, min_usd_value) == ~(usd_value < min_usd_value)

\* lines 41 and 85: `balance_value is None or balance_value == ""`
IsMissing(balance_value) == balance_value.kind \in {"none", "empty"}

\* lines 46 and 90: a str that is not all digits once "." and "-" are removed
IsNonNumericStr(balance_value) == balance_value.kind = "text"

\* lines 50 and 94: Decimal(str(balance_value)) raises InvalidOperation
DecimalRaises(balance_value) == balance_value.kind = "dotted"

\* float(): exact on the whole numbers the model multiplies
ToFloat(x) == x

\* lines 58-60 and 97-99: the copy of the holder with the USD fields
HolderWithUsd(holder, price_usd) ==
  [account_id |-> holder.account_id, balance |-> holder.balance,
   usd_value |-> ToFloat(holder.balance.value * price_usd),
   price_usd |-> ToFloat(price_usd)]

\* the loop of lines 36-66: a holder is skipped when its balance is missing
\* (43), not numeric (48), raises in Decimal (66) or is under the threshold (55)
RECURSIVE FilterLoop(_, _, _)
FilterLoop(holders_in, price_usd, min_usd_value) ==
  IF holders_in = << >> THEN << >>
  ELSE LET holder == Head(holders_in)
           rest == FilterLoop(Tail(holders_in), price_usd, min_usd_value)
       IN  IF \/ IsMissing(holder.balance)
              \/ IsNonNumericStr(holder.balance)
              \/ DecimalRaises(holder.balance)
             THEN rest
             ELSE IF KeepsHolder(holder.balance.value * price_usd, min_usd_value)
                    THEN << HolderWithUsd(holder, price_usd) >> \o rest
                    ELSE rest

\* TokenFilterService.filter_holders_by_usd_value (lines 18-69)
filter_holders_by_usd_value(holders_in, price_usd, min_usd_value) ==
  IF min_usd_value = 0 THEN holders_in
  ELSE IF PriceUnavailable(price_usd) THEN holders_in
  ELSE FilterLoop(holders_in, price_usd, min_usd_value)

\* the loop of lines 80-105: a holder whose balance is missing (86), not
\* numeric (91) or raises in Decimal (105) is appended as it is
RECURSIVE EnrichLoop(_, _)
EnrichLoop(holders_in, price_usd) ==
  IF holders_in = << >> THEN << >>
  ELSE LET holder == Head(holders_in)
           rest == EnrichLoop(Tail(holders_in), price_usd)
       IN  IF \/ IsMissing(holder.balance)
              \/ IsNonNumericStr(holder.balance)
              \/ DecimalRaises(holder.balance)
             THEN << holder >> \o rest
             ELSE << HolderWithUsd(holder, price_usd) >> \o rest

\* TokenFilterService.calculate_usd_values (lines 71-107)
calculate_usd_values(holders_in, price_usd) ==
  IF PriceUnavailable(price_usd) THEN holders_in
  ELSE EnrichLoop(holders_in, price_usd)

\* the loop of hedera_fetcher.py lines 340-364 for a token without an entry
\* in token_decimals.json (decimals 0): `raw_balance or "0"` turns None and
\* "" into 0, Decimal() raises InvalidOperation on a str that is no number
\* and the entry is skipped (357), every other entry becomes a holder
RECURSIVE ProcessBalances(_)
ProcessBalances(accounts_in_page) ==
  IF accounts_in_page = << >> THEN << >>
  ELSE LET balance_entry == Head(accounts_in_page)
           raw_balance == balance_entry.balance
           rest == ProcessBalances(Tail(accounts_in_page))
       IN  IF raw_balance.kind \in {"text", "dotted"}
             THEN rest
             ELSE << [account_id |-> balance_entry.account_id,
                      balance |-> [kind |-> "number",
                                   value |-> IF raw_balance.kind \in {"none", "empty"}
                                               THEN 0 ELSE raw_balance.value]] >>
                  \o rest

\* the holders as the engine reads them: account and Decimal balance
EngineView(holders_in) ==
  [i \in DOMAIN holders_in |->
     [account_id |-> holders_in[i].account_id,
      balance |-> holders_in[i].balance.value]]

\* fetch_token_holders, lines 334-364: the page is processed
ProcessPage ==
  /\ filter_op = "idle"
  /\ filter_holders' = ProcessBalances(filter_raw)
  /\ filter_op' = "fetched"
  /\ UNCHANGED << filter_raw, filter_price, filter_min_usd, filter_output,
                  filter_ranking, outsideFilter >>

\* fetch_token_holders, lines 423-433: the USD step on the fetched holders
ApplyUsd ==
  /\ filter_op = "fetched"
  /\ filter_output' =
       IF filter_min_usd # 0
         THEN filter_holders_by_usd_value(filter_holders, filter_price,
                                          filter_min_usd)
         ELSE calculate_usd_values(filter_holders, filter_price)
  /\ filter_op' = "priced"
  /\ UNCHANGED << filter_raw, filter_price, filter_min_usd, filter_holders,
                  filter_ranking, outsideFilter >>

\* refresh_token_data, lines 582-591: the engine runs on what the fetch
\* returned
RankFiltered ==
  /\ filter_op = "priced"
  /\ filter_ranking' =
       [top_holders |-> TopHolders(EngineView(filter_output)),
        percentile_holders |-> PercentileHolders(EngineView(filter_output))]
  /\ filter_op' = "ranked"
  /\ UNCHANGED << filter_raw, filter_price, filter_min_usd, filter_holders,
                  filter_output, outsideFilter >>

\* filter_holders_by_usd_value called on filter_raw
CallFilter ==
  /\ filter_op = "idle"
  /\ filter_output' =
       filter_holders_by_usd_value(filter_raw, filter_price, filter_min_usd)
  /\ filter_op' = "filter"
  /\ UNCHANGED << filter_raw, filter_price, filter_min_usd, filter_holders,
                  filter_ranking, outsideFilter >>

\* calculate_usd_values called on filter_raw
CallCalculate ==
  /\ filter_op = "idle"
  /\ filter_output' = calculate_usd_values(filter_raw, filter_price)
  /\ filter_op' = "calculate"
  /\ UNCHANGED << filter_raw, filter_price, filter_min_usd, filter_holders,
                  filter_ranking, outsideFilter >>

FilterNext ==
  \/ ProcessPage
  \/ ApplyUsd
  \/ RankFiltered
  \/ CallFilter
  \/ CallCalculate

FilterSpec == FilterInit /\ [][FilterNext]_allVars

\* the list the USD step was called on
UsdStepInput ==
  IF filter_op \in {"filter", "calculate"} THEN filter_raw ELSE filter_holders

\* filter_holders_by_usd_value has run with a price and a threshold
FilterApplied ==
  /\ \/ filter_op = "filter"
     \/ filter_op \in {"priced", "ranked"}
  /\ filter_price # 0
  /\ filter_min_usd # 0

\* the holders of the USD step's input that have a balance worth at least
\* the threshold
AtOrAbove ==
  {i \in DOMAIN UsdStepInput :
     /\ UsdStepInput[i].balance \in WellFormedBalances
     /\ UsdStepInput[i].balance.value * filter_price >= filter_min_usd}

\* C18: when the pricing service has no price for the token,
\* filter_holders_by_usd_value (whatever the threshold) and
\* calculate_usd_values return the input list unchanged: same holders, same
\* order, none dropped, no usd_value field added.
C18_NoPriceNoOp ==
  (filter_op \in {"filter", "calculate", "priced", "ranked"} /\ filter_price = 0)
    => /\ filter_output = UsdStepInput
       /\ \A i \in DOMAIN filter_output :
            "usd_value" \notin DOMAIN filter_output[i]

\* C18 witness: the filter was called with a threshold and without a price
\* on a full list that has a holder under the threshold
C18_FilterCalledWithoutPrice ==
  /\ filter_op = "filter"
  /\ filter_price = 0
  /\ filter_min_usd # 0
  /\ Len(filter_raw) = MaxFilterHolders
  /\ \E i \in DOMAIN filter_raw : filter_raw[i].balance.kind = "number"
  /\ Len(filter_output) = MaxFilterHolders

\* C19: with a price and a threshold m, filter_holders_by_usd_value returns
\* exactly the input holders with balance * price >= m, in input order, each
\* annotated with usd_value = balance * price; the engine runs after the
\* filter, so every rank and marker is taken over the filtered holders only.
C19_FilterKeepsAtOrAbove ==
  FilterApplied =>
    /\ Len(filter_output) = Cardinality(AtOrAbove)
    /\ \A i \in AtOrAbove :
         LET j == Cardinality({k \in AtOrAbove : k <= i})
             holder == UsdStepInput[i]
         IN  /\ filter_output[j].account_id = holder.account_id
             /\ filter_output[j].balance = holder.balance
             /\ filter_output[j].usd_value = holder.balance.value * filter_price
    /\ filter_op = "ranked" =>
         /\ Len(filter_ranking.top_holders) = Len(filter_output)
         /\ Len(filter_output) >= 1 => Len(filter_ranking.percentile_holders) = 99
         /\ \A row \in Range(filter_ranking.top_holders)
                         \cup Range(filter_ranking.percentile_holders) :
              /\ row.rank \in 1..Len(filter_output)
              /\ \E i \in AtOrAbove :
                   /\ row.account_id = UsdStepInput[i].account_id
                   /\ row.balance = UsdStepInput[i].balance.value
                   /\ row.rank >
                        Cardinality({k \in AtOrAbove :
                                       UsdStepInput[k].balance.value > row.balance})

\* C19 witness: a fetch was filtered and ranked; one holder stood exactly at
\* the threshold and was kept, another was under it and was dropped
C19_FilteredThenRanked ==
  /\ filter_op = "ranked"
  /\ FilterApplied
  /\ \E i \in AtOrAbove :
       UsdStepInput[i].balance.value * filter_price = filter_min_usd
  /\ Len(filter_output) < Len(filter_holders)
  /\ Len(filter_ranking.top_holders) >= 1

\* a balance that cannot be read as a number
Malformed(balance_value) == balance_value \in MalformedBalances

\* the accounts of a list of holders
Accounts(holders_in) == {holders_in[i].account_id : i \in DOMAIN holders_in}

\* a raw balance Decimal() cannot parse (a missing one is read as 0 by
\* `raw_balance or "0"`, line 351)
Unparseable(raw_balance) == raw_balance.kind \in {"text", "dotted"}

\* C20: a holder record with a malformed or unparseable balance is dropped
\* as a single record: it is in the output of neither the page processing,
\* nor filter_holders_by_usd_value, nor calculate_usd_values (each taken
\* with a price at hand, without one they return their input as it is),
\* while the other records of the list are still processed.
C20_MalformedDropped ==
  /\ filter_op = "fetched" =>
       \A i \in DOMAIN filter_raw :
         IF Unparseable(filter_raw[i].balance)
           THEN filter_raw[i].account_id \notin Accounts(filter_holders)
           ELSE filter_raw[i].account_id \in Accounts(filter_holders)
  /\ (filter_op = "filter" /\ filter_price # 0 /\ filter_min_usd # 0) =>
       \A i \in DOMAIN filter_raw :
         Malformed(filter_raw[i].balance)
           => filter_raw[i].account_id \notin Accounts(filter_output)
  /\ (filter_op = "calculate" /\ filter_price # 0) =>
       \A i \in DOMAIN filter_raw :
         IF Malformed(filter_raw[i].balance)
           THEN filter_raw[i].account_id \notin Accounts(filter_output)
           ELSE filter_raw[i].account_id \in Accounts(filter_output)

(***************************************************************************)
(* SaucerSwapPricingService on its own, and the price lookups one          *)
(* refresh_token_data invocation makes on it                               *)
(***************************************************************************)
\* token ids the SaucerSwap API lists; the refresh is of the first
PricedTokens == {"0.0.731861", "0.0.2283230"}
RefreshTokenId == "0.0.731861"

\* prices in USD per token (0 stands for None)
Prices == {1, 2}

\* the valid entries of a GET /tokens answer, token id -> priceUsd
TokenLists ==
  {l \in UNION {[S -> Prices] : S \in SUBSET PricedTokens} :
     "0.0.2283230" \in DOMAIN l => l["0.0.2283230"] = 1}

\* what _make_request("/tokens") comes back with: nothing (errors used up
\* the attempts), a body that is no list, an empty list, a list whose
\* entries are all invalid, or a list with valid entries
NotAList == [up |-> TRUE, is_list |-> FALSE, invalid |-> FALSE, tokens |-> EmptyCache]
EmptyList == [up |-> TRUE, is_list |-> TRUE, invalid |-> FALSE, tokens |-> EmptyCache]
InvalidOnly == [up |-> TRUE, is_list |-> TRUE, invalid |-> TRUE, tokens |-> EmptyCache]
Upstreams ==
  {ApiDown, NotAList, EmptyList, InvalidOnly}
    \cup {[up |-> TRUE, is_list |-> TRUE, invalid |-> FALSE, tokens |-> l]
            : l \in TokenLists \ {EmptyCache}}

PricingInit ==
  /\ RefreshIdle
  /\ RetryIdle
  /\ HbarIdle
  /\ IngestIdle
  /\ EngineIdle
  /\ FilterIdle
  /\ price_cache = EmptyCache
  /\ last_cache_update = 0
  /\ now = 1
  /\ upstream \in Upstreams
  /\ lookup_result = NoLookup
  /\ price_pc = "idle"
  /\ price_usd_at_refresh = 0
  /\ floor_price = 0
  /\ usd_step_price = 0

\* a validity test that still holds at an age of exactly _cache_expiry
is_cache_valid_inclusive(last_update, utcnow) ==
  /\ last_update # 0
  /\ utcnow - last_update <= CACHE_EXPIRY

\* _is_cache_valid (lines 53-57)
is_cache_valid(last_update, utcnow) ==
  /\ last_update # 0
  /\ utcnow - last_update < CACHE_EXPIRY

\* a refresh that stamps the cache as updated also when it fails
refresh_price_cache_stamps(cache, last_update, utcnow, response) ==
  IF response.up /\ response.is_list /\ response.tokens # EmptyCache
    THEN [ok |-> TRUE, cache |-> response.tokens, last_update |-> utcnow]
    ELSE [ok |-> FALSE, cache |-> cache, last_update |-> utcnow]

\* refresh_price_cache (lines 134-197): what it returns and what it leaves
\* in _price_cache and _last_cache_update
refresh_price_cache(cache, last_update, utcnow, response) ==
  IF ~response.up
    \* lines 192-197: no response, or an exception
    THEN [ok |-> FALSE, cache |-> cache, last_update |-> last_update]
  ELSE IF ~response.is_list
    \* lines 147-149: not a list
    THEN [ok |-> FALSE, cache |-> cache, last_update |-> last_update]
  ELSE IF response.tokens = EmptyCache /\ ~response.invalid
    \* lines 145, 192-194: an empty list is falsy, "no response"
    THEN [ok |-> FALSE, cache |-> cache, last_update |-> last_update]
  ELSE IF response.tokens = EmptyCache
    \* lines 183-186: no valid entry, the old cache is not overwritten
    THEN [ok |-> (cache = EmptyCache), cache |-> cache,
          last_update |-> last_update]
  \* lines 188-191
  ELSE [ok |-> TRUE, cache |-> response.tokens, last_update |-> utcnow]

\* get_token_price_usd (lines 199-218) for a token other than HBAR: the
\* price it returns (0: None) and the cache it leaves
get_token_price_usd(cache, last_update, utcnow, response, token_id) ==
  LET refreshed ==
        IF is_cache_valid(last_update, utcnow)
          THEN [ok |-> TRUE, cache |-> cache, last_update |-> last_update]
          ELSE refresh_price_cache(cache, last_update, utcnow, response)
  IN  [price |-> IF ~refreshed.ok THEN 0                       \* line 211
                 ELSE IF token_id \in DOMAIN refreshed.cache
                        THEN refreshed.cache[token_id]         \* line 215
                        ELSE 0,                                \* line 218
       cache |-> refreshed.cache,
       last_update |-> refreshed.last_update,
       \* line 144: refresh_price_cache makes one _make_request("/tokens")
       list_calls |-> IF is_cache_valid(last_update, utcnow) THEN 0 ELSE 1]

\* the lookup made now
LookupNow(token_id) ==
  get_token_price_usd(price_cache, last_cache_update, now, upstream, token_id)

\* time passes (pages are being fetched, or the process waits)
Tick ==
  /\ now < MaxNow
  /\ now' = now + 1
  /\ UNCHANGED << price_cache, last_cache_update, upstream, lookup_result,
                  price_pc, price_usd_at_refresh, floor_price, usd_step_price,
                  outsidePricing >>

\* the SaucerSwap API starts to answer something else
UpstreamChange(response) ==
  /\ response # upstream
  /\ upstream' = response
  /\ UNCHANGED << price_cache, last_cache_update, now, lookup_result,
                  price_pc, price_usd_at_refresh, floor_price, usd_step_price,
                  outsidePricing >>

\* get_token_price_usd called directly
Lookup(token_id) ==
  /\ price_pc = "idle"
  /\ LET r == LookupNow(token_id)
     IN  /\ lookup_result' = [token_id |-> token_id, price |-> r.price,
                               list_calls |-> r.list_calls]
         /\ price_cache' = r.cache
         /\ last_cache_update' = r.last_update
  /\ UNCHANGED << now, upstream, price_pc, price_usd_at_refresh, floor_price,
                  usd_step_price, outsidePricing >>

\* refresh_token_data, lines 566-571: _update_token_price_info (lines
\* 108-148) looks the price up; it is the price_usd the rows get
UpdatePriceInfo ==
  /\ price_pc = "idle"
  /\ LET r == LookupNow(RefreshTokenId)
     IN  /\ price_usd_at_refresh' = r.price
         /\ price_cache' = r.cache
         /\ last_cache_update' = r.last_update
  /\ price_pc' = "started"
  /\ UNCHANGED << now, upstream, lookup_result, floor_price, usd_step_price,
                  outsidePricing >>

\* fetch_token_holders, lines 300-308: get_tokens_for_usd_amount (pricing
\* service lines 295-308) looks the price up for the balance floor
FloorLookup ==
  /\ price_pc = "started"
  /\ LET r == LookupNow(RefreshTokenId)
     IN  /\ floor_price' = r.price
         /\ price_cache' = r.cache
         /\ last_cache_update' = r.last_update
  /\ price_pc' = "fetching"
  /\ UNCHANGED << now, upstream, lookup_result, price_usd_at_refresh,
                  usd_step_price, outsidePricing >>

\* fetch_token_holders, lines 423-431, after the last page: the filter
\* service looks the price up (token_filter_service.py lines 29 and 73)
UsdStepLookup ==
  /\ price_pc = "fetching"
  /\ LET r == LookupNow(RefreshTokenId)
     IN  /\ usd_step_price' = r.price
         /\ price_cache' = r.cache
         /\ last_cache_update' = r.last_update
  /\ price_pc' = "fetched"
  /\ UNCHANGED << now, upstream, lookup_result, price_usd_at_refresh,
                  floor_price, outsidePricing >>

\* refresh_token_data, lines 595-629: the rows are built with
\* price_usd_at_refresh = price_usd or 0
BuildRows ==
  /\ price_pc = "fetched"
  /\ price_pc' = "built"
  /\ UNCHANGED << price_cache, last_cache_update, now, upstream, lookup_result,
                  price_usd_at_refresh, floor_price, usd_step_price,
                  outsidePricing >>

PricingNext ==
  \/ Tick
  \/ \E response \in Upstreams : UpstreamChange(response)
  \/ \E token_id \in PricedTokens : Lookup(token_id)
  \/ UpdatePriceInfo
  \/ FloorLookup
  \/ UsdStepLookup
  \/ BuildRows

PricingSpec == PricingInit /\ [][PricingNext]_allVars

\* C11: within one refresh invocation one price is used throughout: once
\* the invocation has found a price and set the balance floor by it, the
\* price of the filter / usd_value step and the price_usd_at_refresh of the
\* rows are that same value, whatever the upstream price and the cache's age
\* do while the pages are fetched.
C11_OnePricePerInvocation ==
  ( /\ price_pc \in {"fetched", "built"}
    /\ price_usd_at_refresh # 0
    /\ floor_price = price_usd_at_refresh )
    => usd_step_price = price_usd_at_refresh

\* C12: a lookup made when the cache has expired and the refresh fails
\* returns the price the non-empty prior cache holds for the token; it
\* returns no price only when the cache is empty.
C12_StaleButAvailable ==
  [][\A token_id \in PricedTokens :
       ( /\ Lookup(token_id)
         /\ ~is_cache_valid(last_cache_update, now)
         /\ ~refresh_price_cache(price_cache, last_cache_update, now,
                                 upstream).ok )
         => lookup_result'.price =
              IF token_id \in DOMAIN price_cache
                THEN price_cache[token_id] ELSE 0]_pricingVars

\* C21: the price cache is valid for 5 minutes after a successful refresh:
\* a lookup within that time is served from the cache without a list call,
\* a lookup after it (or with no refresh before) makes one list call, and a
\* successful refresh replaces the whole cache, so an entry the new
\* response does not list is gone.
C21_CacheTtl ==
  [][\A token_id \in PricedTokens :
       Lookup(token_id) =>
         LET fresh == last_cache_update # 0 /\ now - last_cache_update < 5
         IN  /\ fresh =>
                  /\ lookup_result'.list_calls = 0
                  /\ price_cache' = price_cache
                  /\ last_cache_update' = last_cache_update
                  /\ lookup_result'.price =
                       IF token_id \in DOMAIN price_cache
                         THEN price_cache[token_id] ELSE 0
             /\ ~fresh => lookup_result'.list_calls = 1
             /\ (~fresh /\ upstream.up /\ upstream.tokens # EmptyCache) =>
                  /\ price_cache' = upstream.tokens
                  /\ last_cache_update' = now
                  /\ \A gone \in DOMAIN price_cache \ DOMAIN upstream.tokens :
                       gone \notin DOMAIN price_cache']_pricingVars

\* C21 witness: a lookup made later than 5 minutes after construction
\* refreshed the cache with one list call, and the token looked up is not in
\* the new cache
C21_RefreshedAfterExpiry ==
  /\ lookup_result.token_id = "0.0.2283230"
  /\ lookup_result.list_calls = 1
  /\ lookup_result.price = 0
  /\ last_cache_update = now
  /\ now > CACHE_EXPIRY
  /\ price_cache # EmptyCache

\* the step looks a price up (each of these calls get_token_price_usd)
PriceLookup ==
  \/ \E token_id \in PricedTokens : Lookup(token_id)
  \/ UpdatePriceInfo
  \/ FloorLookup
  \/ UsdStepLookup

\* the bulk refresh made now cannot succeed: no response or an exception,
\* a body that is no list, an empty list, or a list without a valid entry
\* while the cache is not empty
RefreshFails ==
  \/ ~upstream.up
  \/ ~upstream.is_list
  \/ upstream = EmptyList
  \/ upstream.tokens = EmptyCache /\ price_cache # EmptyCache

\* C39: a bulk price refresh that fails (no response, wrong response shape,
\* exception, or a response with no valid entry while the cache is not
\* empty) leaves the cache and its last-update time exactly as they were.
C39_FailedRefreshKeepsCache ==
  [][( /\ PriceLookup
       /\ ~is_cache_valid(last_cache_update, now)
       /\ RefreshFails )
       => /\ price_cache' = price_cache
          /\ last_cache_update' = last_cache_update]_pricingVars

\* C39 witness: a lookup whose refresh failed has returned no price for a
\* token that the cache, filled by an earlier refresh and since expired,
\* still holds
C39_ExpiredCacheKept ==
  /\ price_pc = "idle"
  /\ lookup_result.list_calls = 1
  /\ lookup_result.price = 0
  /\ lookup_result.token_id \in DOMAIN price_cache
  /\ ~is_cache_valid(last_cache_update, now)
  /\ last_cache_update # 0

(***************************************************************************)
(* refresh_price_cache on the entries of one response                      *)
(* (_is_valid_token_data and the loop that builds the new cache)           *)
(***************************************************************************)
\* The fields of an entry of the response, as they arrive:
\*   id        a str (value: the id, "" for the empty str), None ("missing")
\*             or a value that is no str ("nonstr")
\*   priceUsd  a parseable number ("number"), None ("missing") or a str
\*             that is no number ("text")
\*   decimals  an integer ("int"), None ("missing") or a value int() cannot
\*             read ("text")
EntryIds ==
  {[kind |-> "str", value |-> v] : v \in PricedTokens \cup {""}}
    \cup {[kind |-> k, value |-> ""] : k \in {"missing", "nonstr"}}
EntryPrices ==
  {[kind |-> "number", value |-> v] : v \in {-1, 0, 1}}
    \cup {[kind |-> k, value |-> 0] : k \in {"missing", "text"}}
EntryDecimals ==
  {[kind |-> "int", value |-> v] : v \in {-1, 0, 6, 50, 51}}
    \cup {[kind |-> k, value |-> 0] : k \in {"missing", "text"}}
Entries == [id : EntryIds, priceUsd : EntryPrices, decimals : EntryDecimals]

\* the responses refresh_price_cache is run on
IngestResponses ==
  UNION {[1..n -> Entries] : n \in 1..MaxEntries}

IngestInit ==
  /\ RefreshIdle
  /\ RetryIdle
  /\ HbarIdle
  /\ EngineIdle
  /\ FilterIdle
  /\ PricingIdle
  /\ ingest_response \in IngestResponses
  /\ ingest_cache = EmptyCache
  /\ ingest_ok = FALSE
  /\ ingest_done = FALSE

\* _is_valid_token_data (lines 94-132).  Decimals outside 0..50 are logged
\* as unusual (126-127) and the entry is accepted.
is_valid_token_data(token_data) ==
  /\ token_data.id.kind = "str" /\ token_data.id.value # ""     \* 100-103
  /\ token_data.priceUsd.kind # "missing"                        \* 105-108
  /\ token_data.priceUsd.kind # "text"                           \* 110-117
  /\ token_data.priceUsd.value >= 0                              \* 112-114
  /\ token_data.decimals.kind # "missing"                        \* 119-122
  /\ token_data.decimals.kind # "text"                           \* 124-130

\* the loop of lines 151-181: every valid entry is put under its id, a later
\* entry of the same id replaces an earlier one
RECURSIVE NewCache(_)
NewCache(response) ==
  IF response = << >> THEN EmptyCache
  ELSE LET n == Len(response)
           item == response[n]
           before == NewCache(SubSeq(response, 1, n - 1))
       IN  IF is_valid_token_data(item)
             THEN [token_id \in DOMAIN before \cup {item.id.value} |->
                     IF token_id = item.id.value
                       THEN [price_usd |-> item.priceUsd.value,
                             decimals |-> item.decimals.value]
                       ELSE before[token_id]]
             ELSE before

\* refresh_price_cache (lines 134-197) on a service that has cached nothing
\* yet, the API answering ingest_response
IngestRefresh ==
  /\ ~ingest_done
  /\ LET new_cache == NewCache(ingest_response)
     IN  /\ ingest_cache' = new_cache          \* 183-189
         /\ ingest_ok' = TRUE                  \* 186 (empty old cache), 191
  /\ ingest_done' = TRUE
  /\ UNCHANGED << ingest_response, outsideIngest >>

IngestNext == IngestRefresh

IngestSpec == IngestInit /\ [][IngestNext]_allVars

\* what the specification asks of an entry: a non-empty id, a parseable
\* non-negative price and decimals within 0..50
MeetsEntryRules(entry) ==
  /\ entry.id.kind = "str" /\ entry.id.value # ""
  /\ entry.priceUsd.kind = "number" /\ entry.priceUsd.value >= 0
  /\ entry.decimals.kind = "int" /\ entry.decimals.value \in 0..50

\* C22: in a bulk price refresh an entry enters the cache only if it has a
\* non-empty id, a parseable non-negative price and decimals within 0..50;
\* an entry failing any of these is skipped, every entry of the response
\* that meets them is cached, and the refresh does not fail.
C22_OnlyValidEntriesCached ==
  ingest_done =>
    /\ ingest_ok
    /\ \A i \in DOMAIN ingest_response :
         MeetsEntryRules(ingest_response[i])
           => ingest_response[i].id.value \in DOMAIN ingest_cache
    /\ \A token_id \in DOMAIN ingest_cache :
         \E i \in DOMAIN ingest_response :
           /\ ingest_response[i].id.value = token_id
           /\ MeetsEntryRules(ingest_response[i])
           /\ ingest_cache[token_id].price_usd = ingest_response[i].priceUsd.value

(***************************************************************************)
(* get_hbar_price_usd: the three sources of the HBAR price                 *)
(***************************************************************************)
\* a field of current_rate: None, or a number
RateFields(values) ==
  {[kind |-> "none", value |-> 0]} \cup {[kind |-> "int", value |-> v] : v \in values}

\* What the exchange-rate endpoint answers: the request fails ("error"), the
\* body has no current_rate ("no_rate"), or it has one
MirrorAnswers ==
  {SourceDown, [kind |-> "no_rate"]}
    \cup [kind : {"rate"},
          hbar_equivalent : RateFields({-1, 0, 1, 30}),
          cent_equivalent : RateFields({0, 12, 600})]

\* What the price oracle answers: the request fails, the body has no price
\* for hedera-hashgraph, or it has one (in cents; 0 is a price of zero)
OracleAnswers ==
  {SourceDown, [kind |-> "no_price"]}
    \cup {[kind |-> "price", cents |-> c] : c \in {0, 7, 21}}

HbarInit ==
  /\ RefreshIdle
  /\ RetryIdle
  /\ EngineIdle
  /\ FilterIdle
  /\ PricingIdle
  /\ IngestIdle
  /\ hbar_mirror \in MirrorAnswers
  /\ hbar_oracle \in OracleAnswers
  /\ hbar_pc = "idle"
  /\ hbar_consulted = << >>
  /\ hbar_price = NoPrice
  /\ hbar_history = << >>
  /\ hbar_tiers = << >>

\* lines 237-254: the answer has a current_rate whose two fields are there
\* and whose hbar_equivalent is positive
MirrorRateUsable(answer) ==
  /\ answer.kind = "rate"
  /\ answer.hbar_equivalent.kind = "int"
  /\ answer.cent_equivalent.kind = "int"
  /\ ~(answer.hbar_equivalent.value <= 0)

\* an oracle whose answer is never taken
OraclePriceNeverUsable(answer) == FALSE

\* lines 279-280: `if hbar_price` (there, and not zero)
OraclePriceUsable(answer) ==
  /\ answer.kind = "price"
  /\ answer.cents # 0

\* line 291: Decimal("0.20")
FallbackPrice == [num |-> 20, den |-> 100]

\* lines 223-266: Method 1, the Mirror Node exchange rate;
\* price = cent_equivalent / (100 * hbar_equivalent), kept as a fraction
TryExchangeRate ==
  /\ hbar_pc = "idle"
  /\ hbar_consulted' = Append(hbar_consulted, "exchange_rate")
  /\ IF MirrorRateUsable(hbar_mirror)
       THEN /\ hbar_price' = [num |-> hbar_mirror.cent_equivalent.value,
                              den |-> 100 * hbar_mirror.hbar_equivalent.value]
            /\ hbar_pc' = "done"
       ELSE /\ hbar_pc' = "oracle"
            /\ UNCHANGED hbar_price
  /\ UNCHANGED << hbar_mirror, hbar_oracle, hbar_history, hbar_tiers, outsideHbar >>

\* lines 268-288: Method 2, the CoinGecko price
TryOracle ==
  /\ hbar_pc = "oracle"
  /\ hbar_consulted' = Append(hbar_consulted, "oracle")
  /\ IF OraclePriceUsable(hbar_oracle)
       THEN /\ hbar_price' = [num |-> hbar_oracle.cents, den |-> 100]
            /\ hbar_pc' = "done"
       ELSE /\ hbar_pc' = "estimate"
            /\ UNCHANGED hbar_price
  /\ UNCHANGED << hbar_mirror, hbar_oracle, hbar_history, hbar_tiers, outsideHbar >>

\* lines 290-293: Method 3, the hardcoded price
UseEstimate ==
  /\ hbar_pc = "estimate"
  /\ hbar_price' = FallbackPrice
  /\ hbar_pc' = "done"
  /\ UNCHANGED << hbar_mirror, hbar_oracle, hbar_consulted, hbar_history,
                  hbar_tiers, outsideHbar >>

\* the source whose price get_hbar_price_usd has returned
ReturnedBy ==
  IF Len(hbar_consulted) = 1 THEN "exchange_rate"
  ELSE IF OraclePriceUsable(hbar_oracle) THEN "oracle"
  ELSE "estimate"

\* hedera_fetcher.py 108-148, _update_token_price_info for HBAR ('0.0.0'):
\* a price that is there and not zero is written to the price history
UpdateHbarPriceInfo ==
  /\ hbar_pc = "done"
  /\ hbar_pc' = "recorded"
  /\ IF hbar_price.num = 0
       THEN \* line 116: `if not price_usd: return None, None`
            UNCHANGED << hbar_history, hbar_tiers >>
       ELSE /\ hbar_history' =
                 Append(hbar_history,
                        [token_id |-> "0.0.0", price_usd |-> hbar_price,
                         source |-> "saucerswap"])
            /\ hbar_tiers' = Append(hbar_tiers, ReturnedBy)
  /\ UNCHANGED << hbar_mirror, hbar_oracle, hbar_consulted, hbar_price,
                  outsideHbar >>

\* the price update of a later refresh: the sources answer anew
NextPriceUpdate(mirror, oracle) ==
  /\ hbar_pc = "recorded"
  /\ Len(hbar_history) < MaxPriceUpdates
  /\ hbar_mirror' = mirror
  /\ hbar_oracle' = oracle
  /\ hbar_pc' = "idle"
  /\ hbar_consulted' = << >>
  /\ hbar_price' = NoPrice
  /\ UNCHANGED << hbar_history, hbar_tiers, outsideHbar >>

HbarNext ==
  \/ TryExchangeRate
  \/ TryOracle
  \/ UseEstimate
  \/ UpdateHbarPriceInfo
  \/ \E mirror \in MirrorAnswers, oracle \in OracleAnswers :
       NextPriceUpdate(mirror, oracle)

HbarSpec == HbarInit /\ [][HbarNext]_allVars

\* two prices, kept as fractions, are the same number
SamePrice(a, b) == a.num * b.den = b.num * a.den

\* the exchange-rate endpoint answered with a rate that can be used
RateGiven ==
  /\ hbar_mirror.kind = "rate"
  /\ hbar_mirror.hbar_equivalent.kind = "int"
  /\ hbar_mirror.cent_equivalent.kind = "int"
  /\ hbar_mirror.hbar_equivalent.value > 0

\* the oracle answered with a price that can be used
OracleGiven == hbar_oracle.kind = "price" /\ hbar_oracle.cents > 0

\* C23: get_hbar_price_usd tries the exchange-rate endpoint (price =
\* cent_equivalent / (100 * hbar_equivalent)), then the price oracle, then
\* the hardcoded estimate, in that order; a later source is consulted only
\* when every earlier one failed or gave nothing usable; the lookup always
\* returns a price.
C23_HbarSourcesInOrder ==
  /\ \A i \in DOMAIN hbar_consulted :
       hbar_consulted[i] = << "exchange_rate", "oracle" >>[i]
  /\ Len(hbar_consulted) = 2 => ~RateGiven
  /\ hbar_pc = "estimate" => (~RateGiven /\ ~OracleGiven)
  /\ hbar_pc = "done" =>
       /\ hbar_price # NoPrice
       /\ hbar_price.den > 0
       /\ RateGiven =>
            /\ hbar_consulted = << "exchange_rate" >>
            /\ hbar_price.num * 100 * hbar_mirror.hbar_equivalent.value
                 = hbar_mirror.cent_equivalent.value * hbar_price.den
       /\ (~RateGiven /\ OracleGiven) =>
            /\ hbar_consulted = << "exchange_rate", "oracle" >>
            /\ SamePrice(hbar_price, [num |-> hbar_oracle.cents, den |-> 100])
       /\ (~RateGiven /\ ~OracleGiven) =>
            /\ hbar_consulted = << "exchange_rate", "oracle" >>
            /\ SamePrice(hbar_price, [num |-> 1, den |-> 5])

\* C23 witness: the exchange-rate endpoint gave nothing usable and the
\* oracle's price was returned
C23_OraclePriceReturned ==
  /\ hbar_pc = "done"
  /\ hbar_consulted = << "exchange_rate", "oracle" >>
  /\ hbar_mirror.kind = "rate"
  /\ hbar_price = [num |-> 21, den |-> 100]

\* C34: the price-history rows written for the native coin tell the source
\* of the price: two rows whose prices came from different sources
\* (exchange-rate endpoint, price oracle, hardcoded estimate) carry
\* different source values.
C34_TierDistinguishable ==
  \A i, j \in DOMAIN hbar_history :
    hbar_tiers[i] # hbar_tiers[j] => hbar_history[i].source # hbar_history[j].source

(***************************************************************************)
(* _make_request_with_retry: one page request and its HTTP attempts        *)
(***************************************************************************)
\* the two ways the page loop calls it (lines 324-327): the first page with
\* params, a links.next url without
PageUrls ==
  {[url |-> "balances", params |-> TRUE], [url |-> "next", params |-> FALSE]}

\* What one GET comes back with: a page, a 429 with or without a
\* Retry-After header, a 5xx (raise_for_status raises HTTPError), a timeout
\* or a connection error (both raised by session.get)
HttpAnswers ==
  {[status |-> st, has_retry_after |-> FALSE, retry_after |-> 0]
     : st \in {"200", "429", "500", "timeout", "connection_error"}}
    \cup {[status |-> "429", has_retry_after |-> TRUE, retry_after |-> ra]
            : ra \in {0, 2, 7}}

\* lines 86, 92, 96: the answer is neither a page nor a 429; it ends in the
\* `except requests.RequestException` branch
RaisesRequestException(response) ==
  response.status \in {"500", "timeout", "connection_error"}

RetryInit ==
  /\ RefreshIdle
  /\ EngineIdle
  /\ FilterIdle
  /\ PricingIdle
  /\ IngestIdle
  /\ HbarIdle
  /\ retry_url = NoUrl
  /\ retry_attempt = 0
  /\ retry_requests = << >>
  /\ retry_responses = << >>
  /\ retry_waits = << >>
  /\ retry_clock = 0
  /\ retry_outcome = "idle"

\* a loop that runs once more than MAX_RETRIES times
AttemptsLeftOneMore(attempt) == attempt < MAX_RETRIES + 1

\* line 79: `for attempt in range(MAX_RETRIES)`
AttemptsLeft(attempt) == attempt < MAX_RETRIES

\* a 429 wait that does not read the Retry-After header
RetryAfterIgnored(response, attempt) == BACKOFF_FACTOR ^ attempt

\* line 87: int(Retry-After), BACKOFF_FACTOR ** attempt without the header
RetryAfter(response, attempt) ==
  IF response.has_retry_after THEN response.retry_after
  ELSE BACKOFF_FACTOR ^ attempt

\* lines 75-79: the call; the loop starts with attempt 0
CallRequest(page_url) ==
  /\ retry_outcome = "idle"
  /\ retry_url' = page_url
  /\ retry_outcome' = "running"
  /\ UNCHANGED << retry_attempt, retry_requests, retry_responses, retry_waits,
                  retry_clock, outsideRetry >>

\* lines 80-104: one pass of the loop, the GET and what follows from its
\* answer; line 106 once the loop has run out
Attempt(response) ==
  /\ retry_outcome = "running"
  /\ retry_requests' = Append(retry_requests,
                              [url |-> retry_url.url, params |-> retry_url.params,
                               at |-> retry_clock])
  /\ retry_responses' = Append(retry_responses, response)
  /\ IF response.status = "200"
       THEN \* lines 92-94: the pacing sleep, then the page is returned
            /\ retry_outcome' = "page"
            /\ retry_clock' = retry_clock + RATE_LIMIT_SLEEP
            /\ UNCHANGED << retry_attempt, retry_waits >>
       ELSE IF response.status = "429"
         THEN \* lines 86-90: sleep, continue
              LET retry_after == RetryAfter(response, retry_attempt)
              IN  /\ retry_waits' = Append(retry_waits, retry_after)
                  /\ retry_clock' = retry_clock + 1000 * retry_after
                  /\ retry_attempt' = retry_attempt + 1
                  /\ retry_outcome' = IF AttemptsLeft(retry_attempt + 1)
                                        THEN "running" ELSE "none"
         ELSE IF retry_attempt < MAX_RETRIES - 1
           THEN \* lines 96-101: sleep BACKOFF_FACTOR ** attempt, next pass
                LET wait_time == BACKOFF_FACTOR ^ retry_attempt
                IN  /\ retry_waits' = Append(retry_waits, wait_time)
                    /\ retry_clock' = retry_clock + 1000 * wait_time
                    /\ retry_attempt' = retry_attempt + 1
                    /\ retry_outcome' = IF AttemptsLeft(retry_attempt + 1)
                                          THEN "running" ELSE "none"
           ELSE \* lines 102-104: max retries exceeded
                /\ retry_outcome' = "none"
                /\ UNCHANGED << retry_attempt, retry_waits, retry_clock >>
  /\ UNCHANGED << retry_url, outsideRetry >>

RetryNext ==
  \/ \E page_url \in PageUrls : CallRequest(page_url)
  \/ \E response \in HttpAnswers : Attempt(response)

RetrySpec == RetryInit /\ [][RetryNext]_allVars

\* C24: after a 429 with a Retry-After of s seconds the fetcher waits at
\* least s seconds and then requests the same url with the same params
\* again; when that second answer is a page, the page was requested exactly
\* twice and exactly one wait was made (the 40 ms pacing sleep after the
\* page is not a wait for a further attempt).
C24_RetryAfterHonoured ==
  /\ \A i \in DOMAIN retry_responses :
       ( /\ retry_responses[i].status = "429"
         /\ retry_responses[i].has_retry_after
         /\ i < Len(retry_requests) )
         => /\ retry_requests[i + 1].at - retry_requests[i].at
                 >= 1000 * retry_responses[i].retry_after
            /\ retry_requests[i + 1].url = retry_requests[i].url
            /\ retry_requests[i + 1].params = retry_requests[i].params
  /\ ( /\ Len(retry_responses) = 2
       /\ retry_responses[1].status = "429"
       /\ retry_responses[1].has_retry_after
       /\ retry_responses[2].status = "200" )
       => /\ retry_outcome = "page"
          /\ Len(retry_requests) = 2
          /\ Len(retry_waits) = 1
          /\ retry_waits[1] >= retry_responses[1].retry_after

\* C24 witness: a 429 with Retry-After 2 was followed by a page
C24_RateLimitedThenPage ==
  /\ Len(retry_responses) = 2
  /\ retry_responses[1].status = "429"
  /\ retry_responses[1].has_retry_after
  /\ retry_responses[1].retry_after = 2
  /\ retry_responses[2].status = "200"
  /\ retry_outcome = "page"

\* C28: whatever the server answers (429, 5xx, timeouts, connection
\* errors), one page request makes at most MAX_RETRIES (5) GETs and is over
\* after the fifth, returning the page or a failure; a page is returned
\* only on a 200, so a timeout leads to a further attempt or to failure.
C28_BoundedAttempts ==
  /\ Len(retry_requests) <= 5
  /\ Len(retry_requests) = 5 => retry_outcome \in {"page", "none"}
  /\ retry_outcome = "running" => retry_attempt < 5
  /\ retry_outcome = "page" =>
       retry_responses[Len(retry_responses)].status = "200"
  /\ \A i \in DOMAIN retry_responses :
       retry_responses[i].status = "timeout" =>
         \/ i < Len(retry_responses)
         \/ retry_outcome = "running"
         \/ retry_outcome = "none"

\* C28 witness: five attempts were made, a timeout among them, and the
\* request failed
C28_GaveUpAfterFive ==
  /\ Len(retry_requests) = 5
  /\ retry_outcome = "none"
  /\ \E i \in DOMAIN retry_responses : retry_responses[i].status = "timeout"
  /\ \E i \in DOMAIN retry_responses : retry_responses[i].status = "429"

\* C32: between two consecutive GETs of a fetch at least RATE_LIMIT_SLEEP
\* elapses, whether the second is a further attempt for the same page (after
\* a 429, a Retry-After of 0 included, a 5xx or a timeout) or the request of
\* the next page, which is made after the call has returned the page.
C32_MinimumSpacing ==
  /\ \A i \in DOMAIN retry_requests :
       i < Len(retry_requests) =>
         retry_requests[i + 1].at - retry_requests[i].at >= RATE_LIMIT_SLEEP
  /\ retry_outcome = "page" =>
       retry_clock - retry_requests[Len(retry_requests)].at >= RATE_LIMIT_SLEEP

\* every answer of the call so far had this status
OnlyStatus(status) ==
  /\ retry_responses # << >>
  /\ \A i \in DOMAIN retry_responses : retry_responses[i].status = status

\* C33: a page request that keeps getting 5xx is allowed strictly fewer GETs
\* than one that keeps getting 429: the latter gives up after MAX_RETRIES
\* GETs, the former makes fewer than that.
C33_FewerAttemptsOn5xx ==
  /\ (OnlyStatus("429") /\ retry_outcome = "none") =>
       Len(retry_requests) = MAX_RETRIES
  /\ OnlyStatus("500") => Len(retry_requests) < MAX_RETRIES

====
